---- MODULE Spec2Model ----
(***************************************************************************)
(* A model of cdk-reflect's construction engine: the distribution          *)
(* registry (DistributionOps), the value zipper, the minimal value         *)
(* generator and the reservoir-sampling mutator.                           *)
(*                                                                         *)
(* JavaScript strings that are concatenated, sliced or used as object keys *)
(* (FQNs, struct field names, map keys, string payloads) are sequences of  *)
(* one-character strings.  Enumerated tags (type, primitive, sourceName,   *)
(* staticMethod, parameter names) are plain strings.  A JavaScript object  *)
(* is a record that has exactly the properties the code gives it, so a     *)
(* property the code leaves out is absent from the record's DOMAIN.  An    *)
(* object used as an ordered dictionary (Record<string, X>) is a sequence  *)
(* of [key, value] pairs in insertion order.                               *)
(***************************************************************************)
EXTENDS Integers, Sequences, FiniteSets, TLC

(***************************************************************************)
(* Bounds of the model.                                                    *)
(***************************************************************************)
\* how many locators deep the zipper laws are exercised
MaxZipperDepth == 3
\* how many recordDistribution calls one registry run makes
MaxRecorded == 3
\* how many numbers of a range of random data (alphabet characters, number
\* payloads, operands) are explored
MaxDraw == 2
\* how many lengths of a generated string are explored
MaxStrLen == 1
\* how many calls the call stack holds
MaxStack == 14
\* how many variants a mutate call is asked for
MaxK == 2
\* how many minimal calls one process makes
MaxRuns == 2
\* how many mutate calls follow each other
MaxRounds == 2
\* how many arguments, elements or entries the Values given to discretize
\* and to the Evaluator hold at each level
MaxPlanArgs == 2
\* how many arguments, elements or entries the Value of a second file holds
\* at its outer level, when two Values are compared
MaxOtherArgs == 1

(***************************************************************************)
(* Program constants.                                                      *)
(***************************************************************************)
\* plan.ts: const HASH_LENGTH = 12 (digits kept of the digest; the model
\* keeps binary digits where the code keeps hexadecimal ones)
HASH_LENGTH == 12

VARIABLES
  \* --- the generator and the mutator (Spec)
  input,            \* the model and the fqn the caller starts from
  model,            \* the ValueModel the generator works on
  rng,              \* the Random
  constructCounter, \* the constructId plug-in's Map
  stack,            \* the active calls, the innermost last
  ret,              \* the Result of the innermost finished call
  recursionBreaker, \* ValueGenerator.recursionBreaker
  n,                \* ValueMutator.n
  k,                \* ValueMutator.k
  proposedMutations, \* ValueMutator.proposedMutations
  phase,            \* "idle", or the library call that is running
  value,            \* the Value the caller holds
  variants,         \* what the last mutate returned
  thrown,           \* the error the last library call threw
  returned,         \* what the minimal calls returned so far
  rounds,           \* how many mutate calls were made
  \* --- zipper laws (SpecZipper)
  zroot,      \* the root Value the zipper was built on
  zpath,      \* the locators descended so far, outermost first
  zzip,       \* the Zipper built by zipperDescend along zpath
  zfocus,     \* the node the zipper focuses on (absent: [absent |-> TRUE])
  zout,       \* the outcome of the last zipper operation
  \* --- distribution registry (SpecDist)
  distributions, \* model.distributions: distId -> ValueDistribution
  recorded,      \* the recordDistribution calls made so far: [dist, outcome, before]
  dout,          \* the outcome of the last registry operation
  \* --- statements and their evaluation (SpecPlan)
  pvalue,     \* the Value printAndSynth is given
  program,    \* the Statement[] discretize returned
  variables,  \* Evaluator.variables
  hostCalls,  \* the constructor and static calls made on the host library
  ppc,        \* how many statements synth has evaluated
  pphase,     \* "read", "synth", "done" or "failed"
  pout,       \* the outcome of the last statement: what it threw or returned
  pcompare,   \* two synth runs of Values that valueEquals holds equal
  \* --- the explore command (SpecExplore)
  estep,      \* where the handler is: "start", "first", "loop", "mutate", "try",
              \* "done" or "aborted"
  results,    \* the Histogram: message -> count
  saved,      \* the files of the output directory: name -> content
  eout,       \* what the last printAndSynth threw, or None
  trail,      \* per iteration: the value mutated, the candidate, the outcome
  \* --- the construct info tables (SpecInteg)
  constructInfo,  \* TypeSystemParser.constructInfo
  integrationCtr, \* TypeSystemParser.integrationCtr
  \* --- the distribution extractor (SpecExtract)
  xmodel,         \* the DistributionExtractor: its type system, model and error
  visited,        \* the FQNs of the types parse has visited, in order
  \* --- the constructId plug-in (SpecCustom)
  idCounter,      \* the plug-in's constructCounter Map
  ids             \* the identifiers its minimalValue calls returned

generatorVars == <<model, rng, constructCounter, stack, ret, recursionBreaker>>
mutatorVars == <<n, k, proposedMutations>>
callerVars == <<input, phase, value, variants, thrown, returned, rounds>>
engineVars == <<generatorVars, mutatorVars, callerVars>>
zipperVars == <<zroot, zpath, zzip, zfocus, zout>>
distVars == <<distributions, recorded, dout>>
planVars == <<pvalue, program, variables, hostCalls, ppc, pphase, pout, pcompare>>
exploreVars == <<estep, results, saved, eout, trail>>
integVars == <<constructInfo, integrationCtr>>
extractVars == <<xmodel, visited>>
customVars == <<idCounter, ids>>
sideVars == <<integVars, extractVars, customVars>>
vars == <<engineVars, zipperVars, distVars, planVars, exploreVars, sideVars>>

(***************************************************************************)
(* JavaScript helpers                                                      *)
(***************************************************************************)
Has(obj, prop) == prop \in DOMAIN obj

\* xs.slice(from, to) and xs.slice(from) on arrays (0-based, end-exclusive)
Slice(xs, from, to) == SubSeq(xs, from + 1, IF to < Len(xs) THEN to ELSE Len(xs))
SliceFrom(xs, from) == SubSeq(xs, from + 1, Len(xs))

Range(s) == {s[i] : i \in 1..Len(s)}

\* Object.keys(entries)
Keys(entries) == [i \in 1..Len(entries) |-> entries[i].key]
HasKey(entries, key) == \E i \in 1..Len(entries) : entries[i].key = key
\* entries[k] (only used where the key exists)
Get(entries, key) == entries[CHOOSE i \in 1..Len(entries) : entries[i].key = key].value
\* { ...entries, [k]: v }: an existing key keeps its place, a new key goes last
SpreadSet(entries, key, v) ==
  IF HasKey(entries, key)
  THEN [i \in 1..Len(entries) |->
          IF entries[i].key = key THEN [key |-> key, value |-> v] ELSE entries[i]]
  ELSE Append(entries, [key |-> key, value |-> v])
\* unset({ ...entries }, key): delete copy[key]
unset(entries, key) == SelectSeq(entries, LAMBDA e : e.key # key)

\* a thrown Error
\* undefined / no result yet
None == [none |-> TRUE]
IsNone(x) == Has(x, "none")

Threw(msg) == [threw |-> msg]
IsThrown(x) == Has(x, "threw")

(***************************************************************************)
(* util.ts: Result                                                         *)
(***************************************************************************)
failure(reason) == [FAILSYM |-> TRUE, reason |-> reason]
isFailure(x) == Has(x, "FAILSYM")
\* a Result that is an array: a record around the sequence, so that it can
\* be asked for its FAILSYM property like any JavaScript object
Items(xs) == [items |-> xs]

(***************************************************************************)
(* values.ts / generate.ts: the Value IR                                   *)
(***************************************************************************)
DistPtr(distId, sourceIndex) == [distId |-> distId, sourceIndex |-> sourceIndex]

\* payloads of the primitive kinds, kept apart by kind
NumberPayload(num) == [number |-> num]
StringPayload(s) == [string |-> s]
BooleanPayload(b) == [boolean |-> b]
DatePayload(t) == [date |-> t]

ClassInstantiation(fqn, distPtr, parameterNames, arguments) ==
  [type |-> "class-instantiation", fqn |-> fqn, distPtr |-> distPtr,
   parameterNames |-> parameterNames, arguments |-> arguments]
StaticMethodCall(fqn, distPtr, staticMethod, parameterNames, arguments, targetFqn) ==
  [type |-> "static-method-call", fqn |-> fqn, distPtr |-> distPtr,
   staticMethod |-> staticMethod, parameterNames |-> parameterNames,
   arguments |-> arguments, targetFqn |-> targetFqn]
StaticPropertyAccess(fqn, distPtr, staticProperty, targetFqn) ==
  [type |-> "static-property", fqn |-> fqn, distPtr |-> distPtr,
   staticProperty |-> staticProperty, targetFqn |-> targetFqn]
StructLiteral(fqn, distPtr, entries) ==
  [type |-> "object-literal", distPtr |-> distPtr, fqn |-> fqn, entries |-> entries]
MapLiteral(distPtr, entries) ==
  [type |-> "map-literal", distPtr |-> distPtr, entries |-> entries]
ArrayValue(distPtr, elements) ==
  [type |-> "array", distPtr |-> distPtr, elements |-> elements]
PrimitiveValue(primitive, distPtr, payload) ==
  [type |-> "primitive", distPtr |-> distPtr, primitive |-> primitive, value |-> payload]
NoValue(distPtr) == [type |-> "no-value", distPtr |-> distPtr]
ScopeValue(distPtr) == [type |-> "scope", distPtr |-> distPtr]

IsValue(v) == Has(v, "type")
IsCallable(v) == IsValue(v) /\ v.type \in {"class-instantiation", "static-method-call"}
IsDict(v) == IsValue(v) /\ v.type \in {"object-literal", "map-literal"}
IsArray(v) == IsValue(v) /\ v.type = "array"

(***************************************************************************)
(* zipper.ts: the value zipper.  A Zipper is a list of ValueLoc frames,    *)
(* the innermost first (zipperDescend puts the new frame in front).        *)
(***************************************************************************)
\* a locator inside a compound node: an argument or element index, or a
\* field name or map key
IndexLoc(i) == [index |-> i]
KeyLoc(key) == [name |-> key]

nextLevel(v, loc) ==
  CASE v.type = "class-instantiation" ->
         [type |-> "class-instantiation", argumentIndex |-> loc.index, ptr |-> v]
    [] v.type = "static-method-call" ->
         [type |-> "static-method-call", argumentIndex |-> loc.index, ptr |-> v]
    [] v.type = "object-literal" ->
         [type |-> "struct-field", fieldName |-> loc.name, ptr |-> v]
    [] v.type = "map-literal" ->
         [type |-> "map-entry", key |-> loc.name, ptr |-> v]
    [] v.type = "array" ->
         [type |-> "array-element", index |-> loc.index, ptr |-> v]

zipperDescend(z, v, loc) == <<nextLevel(v, loc)>> \o z

\* the mutant of zipperSetRec's frame choice: rebuilds from the innermost frame
OutermostFrameWrong(z) == z[1]
\* zipperSetRec: const x = z[z.length - 1]
OutermostFrame(z) == z[Len(z)]

\* the mutant of the array splice: keeps the element that was at the index
SpliceKeepsOld(xs, i, mid) == Slice(xs, 0, i) \o mid \o SliceFrom(xs, i)
\* [...xs.slice(0, i), ...mid, ...xs.slice(i + 1)]
Splice(xs, i, mid) == Slice(xs, 0, i) \o mid \o SliceFrom(xs, i + 1)

RECURSIVE zipperSetRec(_, _)
zipperSetRec(z, v) ==
  IF Len(z) = 0 THEN v
  ELSE
    LET x == OutermostFrame(z)
        next == zipperSetRec(SubSeq(z, 1, Len(z) - 1), v)
    IN CASE x.type = "class-instantiation" ->
              << [type |-> "class-instantiation",
                  fqn |-> x.ptr.fqn,
                  arguments |-> Splice(x.ptr.arguments, x.argumentIndex, next)] >>
         [] x.type = "static-method-call" ->
              << [type |-> "static-method-call",
                  fqn |-> x.ptr.fqn,
                  staticMethod |-> x.ptr.staticMethod,
                  arguments |-> Splice(x.ptr.arguments, x.argumentIndex, next)] >>
         [] x.type = "array-element" ->
              << [type |-> "array",
                  elements |-> Splice(x.ptr.elements, x.index, next)] >>
         [] x.type = "map-entry" ->
              << [type |-> "map-literal",
                  entries |-> IF Len(next) > 0
                              THEN SpreadSet(x.ptr.entries, x.key, next[1])
                              ELSE unset(x.ptr.entries, x.key)] >>
         [] x.type = "struct-field" ->
              << [type |-> "object-literal",
                  entries |-> IF Len(next) > 0
                              THEN SpreadSet(x.ptr.entries, x.fieldName, next[1])
                              ELSE unset(x.ptr.entries, x.fieldName)] >>

zipperSet(z, v) == zipperSetRec(z, <<v>>)[1]

zipperDelete(z) ==
  IF Len(z) = 0 THEN Threw("Cannot delete in an empty zipper")
  ELSE zipperSetRec(z, <<>>)[1]


(***************************************************************************)
(* distributions.ts: value sources and FQN sources                         *)
(***************************************************************************)
DistributionRef(distId) == [distId |-> distId]

IncludeFqnSources(fqn) == [type |-> "fqn", fqn |-> fqn]
PrimitiveValueSource(p) == [type |-> "primitive", primitive |-> p]
NoValueSource == [type |-> "no-value"]
ArrayValueSource(distId) == [type |-> "array", elements |-> DistributionRef(distId)]
MapValueSource(distId) == [type |-> "map", elements |-> DistributionRef(distId)]
ConstantValueSource(v) == [type |-> "constant", value |-> v]
CustomSource(name) == [type |-> "custom", sourceName |-> name]

ParameterSource(name, distId) == [name |-> name, dist |-> DistributionRef(distId)]
ClassInstantiationSource(fqn, parameters) ==
  [type |-> "class-instantiation", fqn |-> fqn, parameters |-> parameters]
StaticMethodCallSource(fqn, staticMethod, parameters, targetFqn) ==
  [type |-> "static-method-call", fqn |-> fqn, staticMethod |-> staticMethod,
   parameters |-> parameters, targetFqn |-> targetFqn]
StaticPropertyAccessSource(fqn, staticProperty, targetFqn) ==
  [type |-> "static-property", fqn |-> fqn, staticProperty |-> staticProperty,
   targetFqn |-> targetFqn]
\* fields: Record<string, DistributionRef>, in declaration order
ValueObjectSource(fqn, fields) == [type |-> "value-object", fqn |-> fqn, fields |-> fields]
Field(key, distId) == [key |-> key, value |-> DistributionRef(distId)]

(***************************************************************************)
(* The FQNs, primitive names and plug-in names the sample models use.      *)
(***************************************************************************)
FqnA == <<"A">>
FqnB == <<"B">>
FqnA2 == <<"A", "2">>
FqnS == <<"m", ".", "S">>
FqnE == <<"m", ".", "E">>
FqnK == <<"K">>
FqnStack == <<"m", ".", "S", "t">>
FqnX == <<"X">>
FqnNames == <<FqnA, FqnB, FqnA2, FqnS, FqnE, FqnK, FqnStack, FqnX>>
PrimitiveNames == <<"string", "number", "boolean", "json", "date", "any">>
CustomNames == <<"scope", "constructId", "arn", "unknown">>

IndexOf(xs, x) == CHOOSE i \in 1..Len(xs) : xs[i] = x

(***************************************************************************)
(* plan.ts (DistributionOps): content addressing.  JSON.stringify turns a  *)
(* distribution into text, here one number per source; the digest is a     *)
(* polynomial hash of that text, of which hashJsonObject keeps the last    *)
(* HASH_LENGTH binary digits.                                              *)
(***************************************************************************)
RECURSIVE Pow2(_)
Pow2(e) == IF e = 0 THEN 1 ELSE 2 * Pow2(e - 1)

\* the text of one source
SourceJson(src) ==
  CASE src.type = "no-value" -> 1
    [] src.type = "primitive" -> 1 + IndexOf(PrimitiveNames, src.primitive)
    [] src.type = "custom" -> 7 + IndexOf(CustomNames, src.sourceName)
    [] src.type = "fqn" -> 15 + IndexOf(FqnNames, src.fqn)
    [] src.type = "array" -> 32 + 2 * src.elements.distId
    [] src.type = "map" -> 33 + 2 * src.elements.distId

\* JSON.stringify(dist)
JsonStringify(dist) == [i \in 1..Len(dist) |-> SourceJson(dist[i])]

RECURSIVE Digest(_)
Digest(text) ==
  IF Len(text) = 0 THEN 7
  ELSE (Digest(SubSeq(text, 1, Len(text) - 1)) * 8224 + text[Len(text)]) % 131071

\* createHash('sha256').update(JSON.stringify(d)).digest('hex').substring(0, length)
hashJsonObject(obj, length) == Digest(JsonStringify(obj)) % Pow2(length)

hashValueDistribution(d) == hashJsonObject(d, HASH_LENGTH)

\* model.distributions[ref.distId] ?? []
lookupDist(dists, ref) ==
  IF ref.distId \in DOMAIN dists THEN dists[ref.distId] ELSE <<>>

\* the mutant of recordDistribution: an existing id is always a collision
recordDistributionRejectsKnown(dists, dist) ==
  LET distId == hashValueDistribution(dist)
  IN IF distId \in DOMAIN dists
     THEN [outcome |-> Threw("Hash collission on ID. Increase the hash size."),
           distributions |-> dists]
     ELSE [outcome |-> DistributionRef(distId),
           distributions |-> [id \in DOMAIN dists \cup {distId} |->
                                IF id = distId THEN dist ELSE dists[id]]]
\* the mutant of recordDistribution: stores without looking at what is there
recordDistributionOverwrites(dists, dist) ==
  LET distId == hashValueDistribution(dist)
  IN [outcome |-> DistributionRef(distId),
      distributions |-> [id \in DOMAIN dists \cup {distId} |->
                           IF id = distId THEN dist ELSE dists[id]]]
\* recordDistribution(dist): the DistributionRef returned or the Error
\* thrown, and model.distributions afterwards
recordDistribution(dists, dist) ==
  LET distId == hashValueDistribution(dist)
  IN IF distId \in DOMAIN dists
     THEN IF JsonStringify(dists[distId]) # JsonStringify(dist)
          THEN [outcome |-> Threw("Hash collission on ID. Increase the hash size."),
                distributions |-> dists]
          ELSE [outcome |-> DistributionRef(distId), distributions |-> dists]
     ELSE [outcome |-> DistributionRef(distId),
           distributions |-> [id \in DOMAIN dists \cup {distId} |->
                                IF id = distId THEN dist ELSE dists[id]]]


(***************************************************************************)
(* plan.ts (DistributionOps): lookups                                      *)
(***************************************************************************)
unwrapOr(v, def) == IF isFailure(v) THEN def ELSE v.items

lookupFqn(m, fqn) ==
  IF fqn \notin DOMAIN m.fqnSources \/ Len(m.fqnSources[fqn]) = 0
  THEN failure("No constructors for type")
  ELSE Items(m.fqnSources[fqn])

\* the mutant of splatFqns: the loop ends at an fqn without sources
RECURSIVE splatFqnsStopsAtUnknown(_, _)
splatFqnsStopsAtUnknown(m, dist) ==
  IF Len(dist) = 0 THEN <<>>
  ELSE IF dist[1].type = "fqn"
       THEN (IF isFailure(lookupFqn(m, dist[1].fqn)) THEN <<>>
             ELSE lookupFqn(m, dist[1].fqn).items \o splatFqnsStopsAtUnknown(m, Tail(dist)))
       ELSE <<dist[1]>> \o splatFqnsStopsAtUnknown(m, Tail(dist))

\* resolveDist's loop: FqnRefs replaced by the FQN's sources
RECURSIVE splatFqns(_, _)
splatFqns(m, dist) ==
  IF Len(dist) = 0 THEN <<>>
  ELSE (IF dist[1].type = "fqn"
        THEN unwrapOr(lookupFqn(m, dist[1].fqn), <<>>)
        ELSE <<dist[1]>>) \o splatFqns(m, Tail(dist))

resolveDist(m, ref) ==
  LET resolved == splatFqns(m, lookupDist(m.distributions, ref))
  IN IF Len(resolved) = 0 THEN failure("No values in distribution") ELSE Items(resolved)

(***************************************************************************)
(* The sample models, as the extractor records them and as the CLI reads   *)
(* them from a model file.  Every distribution is stored under its         *)
(* content hash.                                                           *)
(***************************************************************************)
DistTable(dists) ==
  [id \in {hashValueDistribution(d) : d \in dists} |->
     CHOOSE d \in dists : hashValueDistribution(d) = id]

DistString == <<PrimitiveValueSource("string")>>
DistNumber == <<PrimitiveValueSource("number")>>
DistBoolean == <<PrimitiveValueSource("boolean")>>
DistOptNumber == <<NoValueSource, PrimitiveValueSource("number")>>
DistRefTo(fqn) == <<IncludeFqnSources(fqn)>>
DistOptRefTo(fqn) == <<NoValueSource, IncludeFqnSources(fqn)>>
DistArrayOfNumber == <<ArrayValueSource(hashValueDistribution(DistNumber))>>
DistMapOfString == <<MapValueSource(hashValueDistribution(DistString))>>
DistScope == <<CustomSource("scope")>>
DistConstructId == <<CustomSource("constructId")>>

Param(name, dist) == ParameterSource(name, hashValueDistribution(dist))
FieldOf(key, dist) == Field(key, hashValueDistribution(dist))

\* class A { constructor(b: B) }, class B { constructor(a: A) }: a cycle
\* without a way out
ModelCycle ==
  [fqnSources |->
     (FqnA :> <<ClassInstantiationSource(FqnA, <<Param("b", DistRefTo(FqnB))>>)>>)
     @@ (FqnB :> <<ClassInstantiationSource(FqnB, <<Param("a", DistRefTo(FqnA))>>)>>),
   distributions |-> DistTable({DistRefTo(FqnA), DistRefTo(FqnB)})]

\* the same cycle with ways out: static A.of(n: number): A and the static
\* property B.INSTANCE: B
ModelEscape ==
  [fqnSources |->
     (FqnA :> <<ClassInstantiationSource(FqnA, <<Param("b", DistRefTo(FqnB))>>),
                StaticMethodCallSource(FqnA, "of", <<Param("n", DistNumber)>>, FqnA)>>)
     @@ (FqnB :> <<ClassInstantiationSource(FqnB, <<Param("a", DistRefTo(FqnA))>>),
                   StaticPropertyAccessSource(FqnB, "INSTANCE", FqnB)>>),
   distributions |-> DistTable({DistRefTo(FqnA), DistRefTo(FqnB), DistNumber})]

\* class m.St { constructor(scope, id: string, props?: m.S) } after biasing,
\* struct m.S { n: string, s?: m.S }, enum m.E { X, Y }, class A2 with
\* constructor(l: number[]), class B with constructor(t: Record<string, string>),
\* and class K { constructor(a?: number, ...b: X[]) }: deriveParameters
\* records the variadic b like a plain parameter of type X, and nothing
\* implements X
ModelApp ==
  [fqnSources |->
     (FqnStack :> <<ClassInstantiationSource(FqnStack,
                      <<Param("scope", DistScope), Param("id", DistConstructId),
                        Param("props", DistOptRefTo(FqnS))>>)>>)
     @@ (FqnS :> <<ValueObjectSource(FqnS,
                     <<FieldOf(<<"n">>, DistString),
                       FieldOf(<<"s">>, DistOptRefTo(FqnS))>>)>>)
     @@ (FqnE :> <<StaticPropertyAccessSource(FqnE, "X", FqnE),
                   StaticPropertyAccessSource(FqnE, "Y", FqnE)>>)
     @@ (FqnA2 :> <<ClassInstantiationSource(FqnA2, <<Param("l", DistArrayOfNumber)>>)>>)
     @@ (FqnB :> <<ClassInstantiationSource(FqnB, <<Param("t", DistMapOfString)>>)>>)
     @@ (FqnK :> <<ClassInstantiationSource(FqnK,
                     <<Param("a", DistOptNumber), Param("b", DistRefTo(FqnX))>>)>>),
   distributions |->
     DistTable({DistScope, DistConstructId, DistOptRefTo(FqnS), DistString,
                DistArrayOfNumber, DistNumber, DistMapOfString, DistOptNumber,
                DistRefTo(FqnX)})]

\* class K { constructor() }: a value nothing can be proposed for
ModelLeaf ==
  [fqnSources |-> (FqnK :> <<ClassInstantiationSource(FqnK, <<>>)>>),
   distributions |-> DistTable({})]

\* class B { constructor(x: number, y: boolean) }: two arguments that can
\* both be mutated
ModelPair ==
  [fqnSources |->
     (FqnB :> <<ClassInstantiationSource(FqnB, <<Param("x", DistNumber),
                                                 Param("y", DistBoolean)>>)>>),
   distributions |-> DistTable({DistNumber, DistBoolean})]

SampleModels == {ModelCycle, ModelEscape, ModelApp, ModelLeaf, ModelPair}


(***************************************************************************)
(* random.ts: Random.  The seeded generator is a stream of draws; rng.tape *)
(* is the part of the stream that has been drawn while rng.rec is set, and *)
(* a Random made again from the same seed (rng.pos back at 0) draws the    *)
(* tape again before the stream goes on.                                   *)
(***************************************************************************)
Min(a, b) == IF a < b THEN a ELSE b

NewRandom == [tape |-> <<>>, pos |-> 0, rec |-> TRUE]

\* the outcomes of pickNr(lo, hi): the number and the generator afterwards
pickNr(r, lo, hi) ==
  IF r.pos < Len(r.tape)
  THEN {[value |-> lo + (r.tape[r.pos + 1] % (hi - lo + 1)),
         rng |-> [r EXCEPT !.pos = @ + 1]]}
  ELSE {[value |-> x,
         rng |-> IF r.rec
                 THEN [r EXCEPT !.tape = Append(@, x - lo), !.pos = @ + 1]
                 ELSE r] : x \in lo..hi}

\* pickNr over a range of which the model explores the first cap numbers
pickNrCapped(r, lo, hi, cap) == pickNr(r, lo, Min(hi, lo + cap - 1))

ALPHABET_CHARS ==
  <<"-", "a", "b", "c", "d", "e", "f", "g", "h", "i", "j", "k", "l", "m", "n",
    "o", "p", "q", "r", "s", "t", "u", "v", "w", "x", "y", "z", "A", "B", "C",
    "D", "E", "F", "G", "H", "I", "J", "K", "L", "M", "N", "O", "P", "Q", "R",
    "S", "T", "U", "V", "W", "X", "Y", "Z", "0", "1", "9", "2", "3", "4", "5",
    "6", "7", "8", "9", " ", "_", ":", "$">>

\* the loop of generateString: len characters, each from one draw
RECURSIVE generateChars(_, _, _)
generateChars(r, len, alphabet) ==
  IF len = 0 THEN {[value |-> <<>>, rng |-> r]}
  ELSE UNION {{[value |-> <<alphabet[c.value + 1]>> \o rest.value, rng |-> rest.rng] :
                 rest \in generateChars(c.rng, len - 1, alphabet)} :
              c \in pickNrCapped(r, 0, Len(alphabet) - 1, MaxDraw)}

generateString(r, minlen, maxlen, alphabet) ==
  UNION {generateChars(len.rng, len.value, alphabet) :
           len \in pickNrCapped(r, minlen, maxlen, MaxStrLen)}

\* xs with the elements at (0-based) positions i and j exchanged
Swap(xs, i, j) == [xs EXCEPT ![i + 1] = xs[j + 1], ![j + 1] = xs[i + 1]]

\* the loop of shuffleMutate from position i down to 1
RECURSIVE shuffleFrom(_, _, _)
shuffleFrom(r, xs, i) ==
  IF i < 1 THEN {[value |-> xs, rng |-> r]}
  ELSE UNION {shuffleFrom(j.rng, Swap(xs, i, j.value), i - 1) : j \in pickNr(r, 0, i)}

shuffleMutate(r, xs) == shuffleFrom(r, xs, Len(xs) - 1)

\* util.ts range(n): 0 .. n-1
range(len) == [i \in 1..len |-> i - 1]

pickFrom(r, xs) ==
  IF Len(xs) = 0 THEN {[value |-> Threw("Cannot pick from empty array"), rng |-> r]}
  ELSE {[value |-> xs[i.value + 1], rng |-> i.rng] : i \in pickNr(r, 0, Len(xs) - 1)}

(***************************************************************************)
(* part_009: AWS_CUSTOM_DISTRIBUTIONS, the plug-ins.  constructCounter is  *)
(* the Map the constructId plug-in keeps for as long as the process lives. *)
(***************************************************************************)
Digits == <<"0", "1", "2", "3", "4", "5", "6", "7", "8", "9">>
RECURSIVE NumberToString(_)
NumberToString(num) ==
  IF num < 10 THEN <<Digits[num + 1]>>
  ELSE NumberToString(num \div 10) \o <<Digits[(num % 10) + 1]>>

stringPrim(str, distPtr) == PrimitiveValue("string", distPtr, StringPayload(str))

RECURSIVE classNameFromFqn(_)
classNameFromFqn(fqn) ==
  IF \E i \in 1..Len(fqn) : fqn[i] = "."
  THEN classNameFromFqn(SubSeq(fqn, (CHOOSE i \in 1..Len(fqn) : fqn[i] = ".") + 1, Len(fqn)))
  ELSE fqn

MyConstruct == <<"M", "y", "C", "o", "n", "s", "t", "r", "u", "c", "t">>
\* the constant ARN text, of which the first four characters are kept
ArnText == <<"a", "r", "n", ":">>

\* ctr = this.constructCounter.get(id); this.constructCounter.set(id, (ctr ?? 1) + 1)
constructCounterSet(cc, id) ==
  SpreadSet(cc, id, (IF HasKey(cc, id) THEN Get(cc, id) ELSE 1) + 1)

\* custom(name).minimalValue(distPtr, zipper): the value returned (or the
\* error thrown) and constructCounter afterwards
customMinimalValue(name, distPtr, zipper, cc) ==
  CASE name = "scope" -> [value |-> ScopeValue(distPtr), cc |-> cc]
    [] name = "arn" -> [value |-> stringPrim(ArnText, distPtr), cc |-> cc]
    [] name = "constructId" ->
         IF Len(zipper) = 0
         THEN [value |-> Threw("TypeError: zipper[0] is undefined"), cc |-> cc]
         ELSE LET id == IF IsCallable(zipper[1].ptr)
                        THEN <<"M", "y">> \o classNameFromFqn(zipper[1].ptr.fqn)
                        ELSE MyConstruct
              IN \* `${id}${ctr ?? ''}`
                 [value |-> stringPrim(id \o (IF HasKey(cc, id)
                                              THEN NumberToString(Get(cc, id))
                                              ELSE <<>>),
                                       distPtr),
                  cc |-> constructCounterSet(cc, id)]
    [] OTHER -> [value |-> Threw("Unknown custom distribution"), cc |-> cc]


(***************************************************************************)
(* part_010 (generate.ts): ValueGenerator.  The recursion of minimalValue  *)
(* is run on an explicit call stack: stack is the list of active calls     *)
(* (the innermost last), ret the Result the innermost finished call has    *)
(* returned (None while a call is to be made).  A call is described by its *)
(* outcome: the frames it puts on the stack, or what it returns at once,   *)
(* and the generator state after it.                                       *)
(***************************************************************************)
Outcome(frames, result, r, cc, brk) ==
  [frames |-> frames, ret |-> result, rng |-> r, cc |-> cc, breaker |-> brk]

apply(result, block(_)) == IF isFailure(result) THEN result ELSE block(result)

valueHasDistPtr(v) == ~(Has(v, "type") /\ v.type = "variable")

validateValue(v) ==
  IF valueHasDistPtr(v) /\ ~Has(v, "distPtr")
  THEN Threw("Value is missing distPtr")
  ELSE v

\* `${x.distId}:${x.sourceIndex}`
stringFromDistPtr(x) == <<x.distId, x.sourceIndex>>

\* the mutant of the breaker test: nothing is ever found on the stack
recursionBreakerHasNothing(brk, key) == FALSE
\* this.recursionBreaker.has(key)
recursionBreakerHas(brk, key) == key \in brk

\* the outcomes of minimalPrimitive(p, source): the value and the Random after
minimalPrimitive(r, p, source) ==
  CASE p = "string" ->
         {[value |-> PrimitiveValue("string", source, StringPayload(str.value)),
           rng |-> str.rng] : str \in generateString(r, 1, 10, ALPHABET_CHARS)}
    [] p = "number" ->
         {[value |-> PrimitiveValue("number", source, NumberPayload(num.value)),
           rng |-> num.rng] : num \in pickNrCapped(r, 1, 10, MaxDraw)}
    [] p = "boolean" ->
         {[value |-> PrimitiveValue("boolean", source, BooleanPayload(FALSE)), rng |-> r]}
    [] p \in {"json", "any"} -> {[value |-> MapLiteral(source, <<>>), rng |-> r]}
    [] p = "date" -> {[value |-> PrimitiveValue("date", source, DatePayload(0)), rng |-> r]}

\* minimalValue(dist, loc) up to its first iteration
minimalValue(m, dist, loc, r, cc, brk) ==
  LET sources == resolveDist(m, dist)
  IN IF isFailure(sources) THEN Outcome(<<>>, sources, r, cc, brk)
     ELSE Outcome(<<[fn |-> "minimalValue", dist |-> dist, loc |-> loc,
                     sources |-> sources.items, i |-> 0]>>, None, r, cc, brk)

\* minimalValueFromSource(source, distPtr, loc) up to the first call it makes
\* (a source without parts is generated, validated and returned at once)
minimalValueFromSource(m, source, distPtr, loc, r, cc, brk) ==
  LET key == stringFromDistPtr(distPtr)
      self == [fn |-> "minimalValueFromSource", key |-> key]
      parameterNames == [j \in 1..Len(source.parameters) |-> source.parameters[j].name]
      returns(v, r2, cc2) ==
        Outcome(<<>>, IF IsThrown(v) THEN v ELSE apply(v, validateValue), r2, cc2, brk)
      calls(frame) == Outcome(<<self, frame>>, None, r, cc, brk \cup {key})
  IN IF recursionBreakerHas(brk, key)
     THEN {Outcome(<<>>, failure("Breaking recursion"), r, cc, brk)}
     ELSE CASE source.type = "class-instantiation" ->
                 {calls([fn |-> "fillMinimalArguments", ps |-> source.parameters, loc |-> loc,
                         baseValue |-> ClassInstantiation(source.fqn, distPtr, parameterNames, <<>>),
                         i |-> 0])}
            [] source.type = "static-method-call" ->
                 {calls([fn |-> "fillMinimalArguments", ps |-> source.parameters, loc |-> loc,
                         baseValue |-> StaticMethodCall(source.fqn, distPtr, source.staticMethod,
                                                        parameterNames, <<>>, source.targetFqn),
                         i |-> 0])}
            [] source.type = "static-property" ->
                 {returns(StaticPropertyAccess(source.fqn, distPtr, source.staticProperty,
                                               source.targetFqn), r, cc)}
            [] source.type = "value-object" ->
                 {calls([fn |-> "fillMinimalFields", fields |-> source.fields, loc |-> loc,
                         baseStruct |-> StructLiteral(source.fqn, distPtr, <<>>), i |-> 0])}
            [] source.type = "constant" -> {returns(source.value, r, cc)}
            [] source.type = "no-value" -> {returns(NoValue(distPtr), r, cc)}
            [] source.type = "primitive" ->
                 {returns(p.value, p.rng, cc) : p \in minimalPrimitive(r, source.primitive, distPtr)}
            [] source.type = "array" ->
                 LET arrayBase == ArrayValue(distPtr, <<>>)
                     element == minimalValue(m, source.elements,
                                             zipperDescend(loc, arrayBase, IndexLoc(0)),
                                             r, cc, brk \cup {key})
                 IN {Outcome(<<self, [fn |-> "arrayElement", arrayBase |-> arrayBase]>>
                               \o element.frames, element.ret, r, cc, brk \cup {key})}
            [] source.type = "map" -> {returns(MapLiteral(distPtr, <<>>), r, cc)}
            [] source.type = "custom" ->
                 LET c == customMinimalValue(source.sourceName, distPtr, loc, cc)
                 IN {returns(c.value, r, c.cc)}

\* the keys the finally blocks of the active minimalValueFromSource calls
\* delete when an error unwinds the stack
Unwound(stk, brk) ==
  brk \ {stk[j].key : j \in {j \in 1..Len(stk) : stk[j].fn = "minimalValueFromSource"}}


(***************************************************************************)
(* The steps of the generator.                                             *)
(***************************************************************************)
Top == stack[Len(stack)]
Below == SubSeq(stack, 1, Len(stack) - 1)
Running == phase # "idle" /\ Len(stack) > 0
Hole == [hole |-> TRUE]

\* the machine goes on with stack stk and the outcome o of a call; a thrown
\* error unwinds every active call
Go(stk, o) ==
  /\ Len(stk) + Len(o.frames) <= MaxStack
  /\ IF IsThrown(o.ret)
     THEN /\ stack' = <<>>
          /\ recursionBreaker' = Unwound(stk \o o.frames, o.breaker)
     ELSE /\ stack' = stk \o o.frames
          /\ recursionBreaker' = o.breaker
  /\ ret' = o.ret
  /\ rng' = o.rng
  /\ constructCounter' = o.cc

\* minimalValue: the loop calls minimalValueFromSource(sources[i], ...)
MinimalValueTry ==
  /\ Running /\ Top.fn = "minimalValue" /\ IsNone(ret)
  /\ Top.i < Len(Top.sources)
  /\ \E o \in minimalValueFromSource(model, Top.sources[Top.i + 1],
                                     DistPtr(Top.dist.distId, Top.i), Top.loc,
                                     rng, constructCounter, recursionBreaker) :
       Go(stack, o)
  /\ UNCHANGED <<model, mutatorVars, callerVars, zipperVars, distVars, planVars, exploreVars, sideVars>>

\* minimalValue: the loop ends, return failure('no options left to try')
MinimalValueExhausted ==
  /\ Running /\ Top.fn = "minimalValue" /\ IsNone(ret)
  /\ Top.i >= Len(Top.sources)
  /\ stack' = Below
  /\ ret' = failure("no options left to try")
  /\ UNCHANGED <<model, rng, constructCounter, recursionBreaker,
                 mutatorVars, callerVars, zipperVars, distVars, planVars, exploreVars, sideVars>>

\* minimalValue: if (!isFailure(ret)) { return ret; } else the next source
MinimalValueBack ==
  /\ Running /\ Top.fn = "minimalValue" /\ ~IsNone(ret)
  /\ IF isFailure(ret)
     THEN /\ stack' = Append(Below, [Top EXCEPT !.i = @ + 1])
          /\ ret' = None
     ELSE /\ stack' = Below
          /\ ret' = ret
  /\ UNCHANGED <<model, rng, constructCounter, recursionBreaker,
                 mutatorVars, callerVars, zipperVars, distVars, planVars, exploreVars, sideVars>>

\* minimalValueFromSource: apply(..., validateValue), finally delete the key
MinimalValueFromSourceBack ==
  /\ Running /\ Top.fn = "minimalValueFromSource" /\ ~IsNone(ret)
  /\ Go(Below, Outcome(<<>>, apply(ret, validateValue), rng, constructCounter,
                       recursionBreaker \ {Top.key}))
  /\ UNCHANGED <<model, mutatorVars, callerVars, zipperVars, distVars, planVars, exploreVars, sideVars>>

\* fillMinimalArguments: minimalValue(p.dist, zipperDescend(loc, baseValue, i))
FillMinimalArgumentsCall ==
  /\ Running /\ Top.fn = "fillMinimalArguments" /\ IsNone(ret)
  /\ Top.i < Len(Top.ps)
  /\ Go(stack, minimalValue(model, Top.ps[Top.i + 1].dist,
                            zipperDescend(Top.loc, Top.baseValue, IndexLoc(Top.i)),
                            rng, constructCounter, recursionBreaker))
  /\ UNCHANGED <<model, mutatorVars, callerVars, zipperVars, distVars, planVars, exploreVars, sideVars>>

\* fillMinimalArguments: the second loop, a no-value for each of ps[i..]
padArguments(ps, i) ==
  [j \in 1..(Len(ps) - i) |-> NoValue(DistPtr(ps[i + j].dist.distId, 0))]

\* fillMinimalArguments: a failure is returned, a no-value ends the first
\* loop and the rest is padded, any other argument is pushed
FillMinimalArgumentsBack ==
  /\ Running /\ Top.fn = "fillMinimalArguments" /\ ~IsNone(ret)
  /\ IF isFailure(ret)
     THEN /\ stack' = Below
          /\ ret' = ret
     ELSE IF ret.type = "no-value"
     THEN /\ stack' = Below
          /\ ret' = [Top.baseValue EXCEPT
                       !.arguments = @ \o padArguments(Top.ps, Top.i)]
     ELSE /\ stack' = Append(Below, [Top EXCEPT !.baseValue.arguments = Append(@, ret),
                                                !.i = @ + 1])
          /\ ret' = None
  /\ UNCHANGED <<model, rng, constructCounter, recursionBreaker,
                 mutatorVars, callerVars, zipperVars, distVars, planVars, exploreVars, sideVars>>

\* fillMinimalArguments: every parameter has its argument, return baseValue
FillMinimalArgumentsDone ==
  /\ Running /\ Top.fn = "fillMinimalArguments" /\ IsNone(ret)
  /\ Top.i >= Len(Top.ps)
  /\ stack' = Below
  /\ ret' = Top.baseValue
  /\ UNCHANGED <<model, rng, constructCounter, recursionBreaker,
                 mutatorVars, callerVars, zipperVars, distVars, planVars, exploreVars, sideVars>>

\* fillMinimalFields: minimalValue(ref, zipperDescend(loc, baseStruct, k))
FillMinimalFieldsCall ==
  /\ Running /\ Top.fn = "fillMinimalFields" /\ IsNone(ret)
  /\ Top.i < Len(Top.fields)
  /\ Go(stack, minimalValue(model, Top.fields[Top.i + 1].value,
                            zipperDescend(Top.loc, Top.baseStruct,
                                          KeyLoc(Top.fields[Top.i + 1].key)),
                            rng, constructCounter, recursionBreaker))
  /\ UNCHANGED <<model, mutatorVars, callerVars, zipperVars, distVars, planVars, exploreVars, sideVars>>

\* fillMinimalFields: a failure is returned, any value becomes entries[k]
FillMinimalFieldsBack ==
  /\ Running /\ Top.fn = "fillMinimalFields" /\ ~IsNone(ret)
  /\ IF isFailure(ret)
     THEN /\ stack' = Below
          /\ ret' = ret
     ELSE /\ stack' = Append(Below,
                 [Top EXCEPT !.baseStruct.entries =
                                SpreadSet(@, Top.fields[Top.i + 1].key, ret),
                             !.i = @ + 1])
          /\ ret' = None
  /\ UNCHANGED <<model, rng, constructCounter, recursionBreaker,
                 mutatorVars, callerVars, zipperVars, distVars, planVars, exploreVars, sideVars>>

\* fillMinimalFields: return baseStruct
FillMinimalFieldsDone ==
  /\ Running /\ Top.fn = "fillMinimalFields" /\ IsNone(ret)
  /\ Top.i >= Len(Top.fields)
  /\ stack' = Below
  /\ ret' = Top.baseStruct
  /\ UNCHANGED <<model, rng, constructCounter, recursionBreaker,
                 mutatorVars, callerVars, zipperVars, distVars, planVars, exploreVars, sideVars>>

\* the 'array' case: the element's failure is passed on, a value becomes
\* the array's one element
ArrayElementBack ==
  /\ Running /\ Top.fn = "arrayElement" /\ ~IsNone(ret)
  /\ stack' = Below
  /\ ret' = IF isFailure(ret) THEN failure("Could not generate array")
            ELSE [Top.arrayBase EXCEPT !.elements = Append(@, ret)]
  /\ UNCHANGED <<model, rng, constructCounter, recursionBreaker,
                 mutatorVars, callerVars, zipperVars, distVars, planVars, exploreVars, sideVars>>


(***************************************************************************)
(* mutate.ts: ValueMutator                                                 *)
(***************************************************************************)
SetMutation(zipper, v) == [mutation |-> "set", zipper |-> zipper, value |-> v]
DeleteMutation(zipper) == [mutation |-> "delete", zipper |-> zipper]

applyMutation(mut) ==
  IF mut.mutation = "set" THEN zipperSet(mut.zipper, mut.value)
  ELSE zipperDelete(mut.zipper)

\* the outcomes of proposeMutation(v): x = pickNr(0, this.n++), and
\* proposedMutations[x] = v if x < k
proposeMutation(r, nn, kk, slots, mut) ==
  {[rng |-> x.rng, n |-> nn + 1,
    proposedMutations |-> IF x.value < kk THEN [slots EXCEPT ![x.value + 1] = mut]
                          ELSE slots] : x \in pickNr(r, 0, nn)}

\* Math.round(a / b) for b > 0
RoundedQuotient(a, b) == (2 * a + b) \div (2 * b)

\* the outcomes of mutatePrimitiveValue(primitive): the new payload and the
\* Random after
mutatePrimitiveValue(r, primitive) ==
  CASE primitive.primitive = "boolean" ->
         {[value |-> BooleanPayload(~primitive.value.boolean), rng |-> r]}
    [] primitive.primitive = "number" ->
         UNION {{[value |-> NumberPayload(
                    CASE op.value = "+" -> primitive.value.number + opnd.value
                      [] op.value = "-" -> primitive.value.number - opnd.value
                      [] op.value = "/" -> RoundedQuotient(primitive.value.number, opnd.value)
                      [] op.value = "*" -> primitive.value.number * opnd.value),
                  rng |-> op.rng] : op \in pickFrom(opnd.rng, <<"+", "-", "*", "/">>)} :
                opnd \in pickNrCapped(r, 1, 5, MaxDraw)}
    [] primitive.primitive = "string" ->
         LET text == primitive.value.string
         IN UNION {
              IF op.value \in {"prepend", "append"}
              THEN {[value |-> StringPayload(IF op.value = "prepend" THEN str.value \o text
                                             ELSE text \o str.value),
                     rng |-> str.rng] : str \in generateString(op.rng, 1, 4, ALPHABET_CHARS)}
              ELSE IF Len(text) > 0
              THEN UNION {{[value |-> StringPayload(Slice(text, 0, i.value)
                                                    \o SliceFrom(text, i.value + len.value)),
                            rng |-> len.rng] :
                             len \in pickNr(i.rng, 0, Len(text) - i.value)} :
                          i \in pickNr(op.rng, 0, Len(text))}
              ELSE {[value |-> primitive.value, rng |-> op.rng]} :
              op \in pickFrom(r, <<"slice", "prepend", "append">>)}
    [] OTHER -> {[value |-> primitive.value, rng |-> r]}

\* mutateValue(value, zipper) up to its forEach: resolveDist(value.distPtr)
\* of a value without distPtr, and forEach on a failure, are TypeErrors
mutateValue(m, v, zipper, r, cc, brk) ==
  IF ~valueHasDistPtr(v) THEN Outcome(<<>>, None, r, cc, brk)
  ELSE IF ~Has(v, "distPtr")
  THEN Outcome(<<>>, Threw("TypeError: Cannot read properties of undefined (reading 'distId')"),
               r, cc, brk)
  ELSE LET sources == resolveDist(m, v.distPtr)
       IN IF isFailure(sources)
          THEN Outcome(<<>>, Threw("TypeError: sources.forEach is not a function"), r, cc, brk)
          ELSE Outcome(<<[fn |-> "mutateValue", value |-> v, zipper |-> zipper,
                          sources |-> sources.items, pc |-> "siblings", i |-> 0,
                          order |-> <<>>, start |-> 0, at |-> zipper]>>, None, r, cc, brk)

\* the innermost mutateValue call has walked its sources and looks at
\* source = sources[value.distPtr.sourceIndex]
AtSource ==
  /\ Running /\ Top.fn = "mutateValue" /\ IsNone(ret)
  /\ Top.pc = "siblings" /\ Top.i >= Len(Top.sources)
TheSource ==
  IF Top.value.distPtr.sourceIndex < Len(Top.sources)
  THEN Top.sources[Top.value.distPtr.sourceIndex + 1]
  ELSE None
Return ==
  /\ stack' = Below
  /\ UNCHANGED <<model, rng, constructCounter, ret, recursionBreaker, mutatorVars>>

\* sources.forEach: a minimal value from every other source of the distribution
MutateSibling ==
  /\ Running /\ Top.fn = "mutateValue" /\ IsNone(ret)
  /\ Top.pc = "siblings" /\ Top.i < Len(Top.sources)
  /\ IF Top.i = Top.value.distPtr.sourceIndex
     THEN /\ stack' = Append(Below, [Top EXCEPT !.i = @ + 1])
          /\ UNCHANGED <<rng, constructCounter, ret, recursionBreaker>>
     ELSE \E o \in minimalValueFromSource(model, Top.sources[Top.i + 1],
                                          DistPtr(Top.value.distPtr.distId, Top.i),
                                          Top.zipper, rng, constructCounter,
                                          recursionBreaker) :
            Go(Append(Below, [Top EXCEPT !.at = Top.zipper]), o)
  /\ UNCHANGED <<model, mutatorVars, callerVars, zipperVars, distVars, planVars, exploreVars, sideVars>>

\* proposeSet(zipper, <the Result the generator returned>)
MutateProposeSet ==
  /\ Running /\ Top.fn = "mutateValue" /\ ~IsNone(ret)
  /\ \E p \in proposeMutation(rng, n, k, proposedMutations, SetMutation(Top.at, ret)) :
       /\ rng' = p.rng
       /\ n' = p.n
       /\ proposedMutations' = p.proposedMutations
  /\ ret' = None
  /\ stack' = Append(Below, IF Top.pc = "siblings" THEN [Top EXCEPT !.i = @ + 1]
                            ELSE [Top EXCEPT !.pc = "added"])
  /\ UNCHANGED <<model, constructCounter, recursionBreaker, k, callerVars,
                 zipperVars, distVars, planVars, exploreVars, sideVars>>

\* no source, 'no-value', 'static-property', 'constant', a value of another
\* type than its source, or a plug-in (whose mutate does nothing): return
MutateNothing ==
  /\ AtSource
  /\ LET source == TheSource
     IN IF IsNone(source) THEN Return
        ELSE IF source.type = "custom"
        THEN IF source.sourceName \in {"scope", "constructId", "arn"} THEN Return
             ELSE /\ Go(stack, Outcome(<<>>, Threw("Unknown custom distribution"), rng,
                                       constructCounter, recursionBreaker))
                  /\ UNCHANGED <<model, mutatorVars>>
        ELSE /\ \/ source.type \in {"no-value", "static-property", "constant"}
                \/ source.type \in {"array", "class-instantiation", "static-method-call",
                                    "primitive"}
                   /\ Top.value.type # source.type
                \/ source.type = "map" /\ Top.value.type # "map-literal"
                \/ source.type = "value-object" /\ Top.value.type # "object-literal"
             /\ Return
  /\ UNCHANGED <<callerVars, zipperVars, distVars, planVars, exploreVars, sideVars>>


\* case 'array': propose a new last element
MutateArray ==
  /\ AtSource /\ ~IsNone(TheSource)
  /\ TheSource.type = "array" /\ Top.value.type = "array"
  /\ LET at == zipperDescend(Top.zipper, Top.value, IndexLoc(Len(Top.value.elements)))
     IN Go(Append(Below, [Top EXCEPT !.pc = "adding", !.at = at]),
           minimalValue(model, TheSource.elements, at, rng, constructCounter,
                        recursionBreaker))
  /\ UNCHANGED <<model, mutatorVars, callerVars, zipperVars, distVars, planVars, exploreVars, sideVars>>

\* case 'map': propose an entry under a new random key
MutateMap ==
  /\ AtSource /\ ~IsNone(TheSource)
  /\ TheSource.type = "map" /\ Top.value.type = "map-literal"
  /\ \E newKey \in generateString(rng, 1, 10, ALPHABET_CHARS) :
       LET at == zipperDescend(Top.zipper, Top.value, KeyLoc(newKey.value))
       IN Go(Append(Below, [Top EXCEPT !.pc = "adding", !.at = at]),
             minimalValue(model, TheSource.elements, at, newKey.rng, constructCounter,
                          recursionBreaker))
  /\ UNCHANGED <<model, mutatorVars, callerVars, zipperVars, distVars, planVars, exploreVars, sideVars>>

\* case 'class-instantiation', 'static-method-call': propose one more
\* argument if the source has more parameters
MutateCallable ==
  /\ AtSource /\ ~IsNone(TheSource)
  /\ TheSource.type \in {"class-instantiation", "static-method-call"}
  /\ TheSource.type = Top.value.type
  /\ IF Len(Top.value.arguments) < Len(TheSource.parameters)
     THEN LET at == zipperDescend(Top.zipper, Top.value,
                                  IndexLoc(Len(Top.value.arguments)))
          IN Go(Append(Below, [Top EXCEPT !.pc = "adding", !.at = at]),
                minimalValue(model, TheSource.parameters[Len(Top.value.arguments) + 1].dist,
                             at, rng, constructCounter, recursionBreaker))
     ELSE /\ stack' = Append(Below, [Top EXCEPT !.pc = "added"])
          /\ UNCHANGED <<rng, constructCounter, ret, recursionBreaker>>
  /\ UNCHANGED <<model, mutatorVars, callerVars, zipperVars, distVars, planVars, exploreVars, sideVars>>

\* case 'value-object': every entry of the value is mutated
MutateStruct ==
  /\ AtSource /\ ~IsNone(TheSource)
  /\ TheSource.type = "value-object" /\ Top.value.type = "object-literal"
  /\ stack' = Append(Below, [Top EXCEPT !.pc = "fields", !.i = 0])
  /\ UNCHANGED <<model, rng, constructCounter, ret, recursionBreaker,
                 mutatorVars, callerVars, zipperVars, distVars, planVars, exploreVars, sideVars>>

\* case 'primitive': proposeSet(zipper, { ...value, value: newValue })
MutatePrimitive ==
  /\ AtSource /\ ~IsNone(TheSource)
  /\ TheSource.type = "primitive" /\ Top.value.type = "primitive"
  /\ \E newValue \in mutatePrimitiveValue(rng, Top.value) :
       \E p \in proposeMutation(newValue.rng, n, k, proposedMutations,
                                SetMutation(Top.zipper,
                                            [Top.value EXCEPT !.value = newValue.value])) :
         /\ rng' = p.rng
         /\ n' = p.n
         /\ proposedMutations' = p.proposedMutations
  /\ stack' = Below
  /\ UNCHANGED <<model, constructCounter, ret, recursionBreaker, k, callerVars,
                 zipperVars, distVars, planVars, exploreVars, sideVars>>

\* 'array' and 'map' after the addition: propose the deletion of a random
\* element or entry and mutate it
MutateElement ==
  /\ Running /\ Top.fn = "mutateValue" /\ IsNone(ret) /\ Top.pc = "added"
  /\ Top.value.type \in {"array", "map-literal"}
  /\ LET locs == IF Top.value.type = "array"
                 THEN [j \in 1..Len(Top.value.elements) |-> IndexLoc(j - 1)]
                 ELSE [j \in 1..Len(Top.value.entries) |->
                         KeyLoc(Keys(Top.value.entries)[j])]
     IN IF Len(locs) > 0
        THEN \E loc \in pickFrom(rng, locs) :
               LET elZipper == zipperDescend(Top.zipper, Top.value, loc.value)
               IN \E p \in proposeMutation(loc.rng, n, k, proposedMutations,
                                           DeleteMutation(elZipper)) :
                    /\ n' = p.n
                    /\ proposedMutations' = p.proposedMutations
                    /\ k' = k
                    /\ Go(Append(Below, [Top EXCEPT !.pc = "done"]),
                          mutateValue(model,
                                      IF Top.value.type = "array"
                                      THEN Top.value.elements[loc.value.index + 1]
                                      ELSE Get(Top.value.entries, loc.value.name),
                                      elZipper, p.rng, constructCounter,
                                      recursionBreaker))
        ELSE Return
  /\ UNCHANGED <<model, callerVars, zipperVars, distVars, planVars, exploreVars, sideVars>>

\* callables after the addition: shuffleMutate(range(value.arguments.length))
MutateArguments ==
  /\ Running /\ Top.fn = "mutateValue" /\ IsNone(ret) /\ Top.pc = "added"
  /\ Top.value.type \in {"class-instantiation", "static-method-call"}
  /\ IF Len(Top.value.arguments) > 0
     THEN /\ \E args \in shuffleMutate(rng, range(Len(Top.value.arguments))) :
               /\ stack' = Append(Below, [Top EXCEPT !.pc = "args", !.order = args.value,
                                                     !.i = 0])
               /\ rng' = args.rng
          /\ UNCHANGED <<model, constructCounter, ret, recursionBreaker, mutatorVars>>
     ELSE Return
  /\ UNCHANGED <<callerVars, zipperVars, distVars, planVars, exploreVars, sideVars>>

\* the mutant of didPropose: a block is never seen to propose
didProposeNever(start, nn) == FALSE
\* didPropose(block): this.n > start, for the n before the block
didPropose(start, nn) == nn > start

\* for (const arg of args): return once a mutateValue of an argument has
\* proposed something (didPropose)
MutateArgument ==
  /\ Running /\ Top.fn = "mutateValue" /\ IsNone(ret) /\ Top.pc = "args"
  /\ IF Top.i > 0 /\ didPropose(Top.start, n) THEN Return
     ELSE IF Top.i < Len(Top.order)
     THEN LET arg == Top.order[Top.i + 1]
          IN /\ Go(Append(Below, [Top EXCEPT !.i = @ + 1, !.start = n]),
                   mutateValue(model, Top.value.arguments[arg + 1],
                               zipperDescend(Top.zipper, Top.value, IndexLoc(arg)),
                               rng, constructCounter, recursionBreaker))
             /\ UNCHANGED <<model, mutatorVars>>
     ELSE Return
  /\ UNCHANGED <<callerVars, zipperVars, distVars, planVars, exploreVars, sideVars>>

\* for (const [key, entryValue] of Object.entries(value.entries))
MutateField ==
  /\ Running /\ Top.fn = "mutateValue" /\ IsNone(ret) /\ Top.pc = "fields"
  /\ IF Top.i < Len(Top.value.entries)
     THEN LET entry == Top.value.entries[Top.i + 1]
          IN /\ Go(Append(Below, [Top EXCEPT !.i = @ + 1]),
                   mutateValue(model, entry.value,
                               zipperDescend(Top.zipper, Top.value, KeyLoc(entry.key)),
                               rng, constructCounter, recursionBreaker))
             /\ UNCHANGED <<model, mutatorVars>>
     ELSE Return
  /\ UNCHANGED <<callerVars, zipperVars, distVars, planVars, exploreVars, sideVars>>

\* the element's mutateValue has returned: return
MutateDone ==
  /\ Running /\ Top.fn = "mutateValue" /\ IsNone(ret) /\ Top.pc = "done"
  /\ Return
  /\ UNCHANGED <<callerVars, zipperVars, distVars, planVars, exploreVars, sideVars>>


(***************************************************************************)
(* The caller: a process that makes a ValueGenerator and calls minimal,    *)
(* possibly again with a Random of the same seed, and then, as the explore *)
(* loop of cli.ts does, makes a ValueMutator per round, calls mutate and   *)
(* goes on with one of the variants.                                       *)
(***************************************************************************)
Idle == phase = "idle" /\ Len(stack) = 0

\* new ValueGenerator(model, Random.mersenneFromSeed(seed)).minimal(fqn) up
\* to the first call of minimalValue
CallMinimal ==
  /\ Idle /\ Len(returned) < MaxRuns /\ rounds = 0
  /\ LET rec == recordDistribution(input.model.distributions,
                                   <<IncludeFqnSources(input.fqn)>>)
         m == [input.model EXCEPT !.distributions = rec.distributions]
     IN /\ model' = m
        /\ IF IsThrown(rec.outcome)
           THEN Go(<<>>, Outcome(<<>>, rec.outcome, [rng EXCEPT !.pos = 0],
                                 constructCounter, {}))
           ELSE Go(<<>>, minimalValue(m, rec.outcome, <<>>, [rng EXCEPT !.pos = 0],
                                      constructCounter, {}))
  /\ phase' = "minimal"
  /\ thrown' = None
  /\ UNCHANGED <<mutatorVars, input, value, variants, returned, rounds,
                 zipperVars, distVars, planVars, exploreVars, sideVars>>

\* minimal returns unwrap(<the Result>): the Value, or an Error thrown
MinimalReturn ==
  /\ phase = "minimal" /\ Len(stack) = 0 /\ ~IsNone(ret)
  /\ LET result == IF isFailure(ret) THEN Threw(ret.reason) ELSE ret
     IN /\ returned' = Append(returned, result)
        /\ thrown' = IF IsThrown(result) THEN result ELSE None
        /\ value' = IF IsThrown(result) THEN None ELSE result
  /\ phase' = "idle"
  /\ ret' = None
  /\ UNCHANGED <<model, rng, constructCounter, stack, recursionBreaker, mutatorVars,
                 input, variants, rounds, zipperVars, distVars, planVars, exploreVars, sideVars>>

\* new ValueMutator(model, random, { variants }).mutate(value) up to the
\* first call of mutateValue
NewMutator(variantCount) ==
  /\ Idle /\ ~IsNone(value) /\ rounds < MaxRounds
  /\ n' = 0
  /\ k' = variantCount
  /\ proposedMutations' = [j \in 1..variantCount |-> Hole]
  /\ Go(<<>>, mutateValue(model, value, <<>>, [rng EXCEPT !.rec = FALSE],
                          constructCounter, {}))
  /\ phase' = "mutate"
  /\ thrown' = None
  /\ variants' = None
  /\ rounds' = rounds + 1
  /\ UNCHANGED <<model, input, value, returned, zipperVars, distVars, planVars, sideVars>>

CallMutate(variantCount) == NewMutator(variantCount) /\ UNCHANGED exploreVars

\* mutate returns this.proposedMutations.map(applyMutation); map skips the
\* slots that were never assigned
MutateReturn ==
  /\ phase = "mutate" /\ Len(stack) = 0
  /\ IF IsThrown(ret)
     THEN /\ thrown' = ret
          /\ variants' = None
     ELSE /\ thrown' = None
          /\ variants' = Items([j \in 1..k |->
                                   IF proposedMutations[j] = Hole THEN Hole
                                   ELSE applyMutation(proposedMutations[j])])
  /\ phase' = "idle"
  /\ ret' = None
  /\ UNCHANGED <<model, rng, constructCounter, stack, recursionBreaker, mutatorVars,
                 input, value, returned, rounds, zipperVars, distVars, planVars, exploreVars, sideVars>>

\* mutate(value) once more on the ValueMutator that has returned:
\* if (this.n > 0) throw, else the walk starts again
MutateAgain ==
  /\ Idle /\ rounds > 0 /\ ~IsNone(variants)
  /\ IF n > 0
     THEN /\ thrown' = Threw("You can only call mutate once!")
          /\ variants' = None
          /\ UNCHANGED <<generatorVars, phase>>
     ELSE /\ Go(<<>>, mutateValue(model, value, <<>>, rng, constructCounter, {}))
          /\ phase' = "mutate"
          /\ thrown' = None
          /\ variants' = None
          /\ model' = model
  /\ UNCHANGED <<mutatorVars, input, value, returned, rounds,
                 zipperVars, distVars, planVars, exploreVars, sideVars>>

\* the caller goes on with one of the variants
Adopt(j) ==
  /\ Idle /\ ~IsNone(variants)
  /\ j \in 1..Len(variants.items) /\ variants.items[j] # Hole
  /\ value' = variants.items[j]
  /\ variants' = None
  /\ UNCHANGED <<generatorVars, mutatorVars, input, phase, thrown, returned, rounds,
                 zipperVars, distVars, planVars, exploreVars, sideVars>>


\* the variables of the other specifications stay as they are
ZipperUnused ==
  /\ zroot = None /\ zpath = <<>> /\ zzip = <<>> /\ zfocus = None /\ zout = None
DistUnused ==
  /\ distributions = <<>> /\ recorded = <<>> /\ dout = None
EngineUnused ==
  /\ input = None /\ model = None /\ rng = NewRandom /\ constructCounter = <<>>
  /\ stack = <<>> /\ ret = None /\ recursionBreaker = {}
  /\ n = 0 /\ k = 0 /\ proposedMutations = <<>>
  /\ phase = "idle" /\ value = None /\ variants = None /\ thrown = None
  /\ returned = <<>> /\ rounds = 0

PlanUnused ==
  /\ pvalue = None /\ program = <<>> /\ variables = <<>> /\ hostCalls = <<>>
  /\ ppc = 0 /\ pphase = "read" /\ pout = None /\ pcompare = None
ExploreUnused ==
  /\ estep = "start" /\ results = <<>> /\ saved = <<>> /\ eout = None /\ trail = <<>>
SideUnused ==
  /\ constructInfo = None /\ integrationCtr = 0
  /\ xmodel = None /\ visited = <<>>
  /\ idCounter = <<>> /\ ids = <<>>

\* the fqns minimal is asked for: the model's, and one it does not know
Targets(m) == DOMAIN m.fqnSources \cup {FqnX}

Init ==
  /\ input \in UNION {{[model |-> m, fqn |-> fqn] : fqn \in Targets(m)} : m \in SampleModels}
  /\ model = input.model
  /\ rng = NewRandom
  /\ constructCounter = <<>>
  /\ stack = <<>> /\ ret = None /\ recursionBreaker = {}
  /\ n = 0 /\ k = 0 /\ proposedMutations = <<>>
  /\ phase = "idle" /\ value = None /\ variants = None /\ thrown = None
  /\ returned = <<>> /\ rounds = 0
  /\ ZipperUnused /\ DistUnused /\ PlanUnused /\ ExploreUnused /\ SideUnused

\* the steps inside a minimal call
MinimalSteps ==
  \/ MinimalValueTry
  \/ MinimalValueExhausted
  \/ MinimalValueBack
  \/ MinimalValueFromSourceBack
  \/ FillMinimalArgumentsCall
  \/ FillMinimalArgumentsBack
  \/ FillMinimalArgumentsDone
  \/ FillMinimalFieldsCall
  \/ FillMinimalFieldsBack
  \/ FillMinimalFieldsDone
  \/ ArrayElementBack
  \/ MinimalReturn

\* the steps of minimal calls
NextMinimal == CallMinimal \/ MinimalSteps

\* the steps inside a mutate call that are the mutator's own
MutateSteps ==
  \/ MutateSibling
  \/ MutateProposeSet
  \/ MutateNothing
  \/ MutateArray
  \/ MutateMap
  \/ MutateCallable
  \/ MutateStruct
  \/ MutatePrimitive
  \/ MutateElement
  \/ MutateArguments
  \/ MutateArgument
  \/ MutateField
  \/ MutateDone
  \/ MutateReturn

\* the steps of mutate calls that are the mutator's own
NextMutate ==
  \/ \E variantCount \in 1..MaxK : CallMutate(variantCount)
  \/ MutateSteps
  \/ MutateAgain
  \/ \E j \in 1..MaxK : Adopt(j)

Next == NextMinimal \/ NextMutate

\* a process that only generates: a minimal call that is running goes on
SpecMinimal == Init /\ [][NextMinimal]_vars /\ WF_vars(NextMinimal)

\* the process goes on while a call is running
Spec == Init /\ [][Next]_vars /\ WF_vars(Next)


(***************************************************************************)
(* SpecDist: recordDistribution calls on an initially empty model (the     *)
(* extractor's and the biaser's use of DistributionOps).                   *)
(***************************************************************************)
\* the distributions the calls are made with; two pairs collide in their
\* truncated digests
CandidateDists ==
  { <<PrimitiveValueSource("string")>>,
    <<NoValueSource, IncludeFqnSources(FqnA)>>,
    <<NoValueSource, PrimitiveValueSource("number"), PrimitiveValueSource("string")>>,
    <<IncludeFqnSources(FqnB), NoValueSource, PrimitiveValueSource("string")>>,
    <<NoValueSource, PrimitiveValueSource("number"), IncludeFqnSources(FqnA)>>,
    <<IncludeFqnSources(FqnB), NoValueSource, IncludeFqnSources(FqnA)>>,
    <<CustomSource("scope")>>,
    <<IncludeFqnSources(FqnB), IncludeFqnSources(FqnX)>>,
    <<>> }

\* the fqnSources the distributions are resolved against: A has two sources,
\* B has an empty list, X is not there
DistFqnSources ==
  (FqnA :> <<ClassInstantiationSource(FqnA, <<>>),
             StaticMethodCallSource(FqnA, "of", <<>>, FqnA)>>)
  @@ (FqnB :> <<>>)

\* a DistributionRef nothing was recorded under
UnknownRef == DistributionRef(0)

EmptyDistributions == [id \in {} |-> <<>>]

InitDist ==
  /\ distributions = EmptyDistributions
  /\ recorded = <<>>
  /\ dout = None
  /\ EngineUnused /\ ZipperUnused /\ PlanUnused /\ ExploreUnused /\ SideUnused

RecordDistribution(dist) ==
  /\ Len(recorded) < MaxRecorded
  /\ LET r == recordDistribution(distributions, dist)
     IN /\ distributions' = r.distributions
        /\ dout' = r.outcome
        /\ recorded' = Append(recorded, [dist |-> dist, outcome |-> r.outcome,
                                         before |-> distributions,
                                         after |-> r.distributions])
  /\ UNCHANGED <<engineVars, zipperVars, planVars, exploreVars, sideVars>>

\* resolveDist(ref) on the model as it is now
ResolveDist(ref) ==
  /\ dout' = [ref |-> ref,
              result |-> resolveDist([fqnSources |-> DistFqnSources,
                                      distributions |-> distributions], ref)]
  /\ UNCHANGED <<distributions, recorded, engineVars, zipperVars, planVars, exploreVars, sideVars>>

NextDist ==
  \/ \E dist \in CandidateDists : RecordDistribution(dist)
  \/ \E distId \in DOMAIN distributions \cup {UnknownRef.distId} :
       ResolveDist(DistributionRef(distId))

SpecDist == InitDist /\ [][NextDist]_vars

(***************************************************************************)
(* SpecZipper: zippers built by zipperDescend on a value, then used by     *)
(* zipperSet and zipperDelete.                                             *)
(***************************************************************************)
Absent == [absent |-> TRUE]
IsAbsent(x) == Has(x, "absent")

\* the child of node v at a locator (Absent where there is none)
Child(v, loc) ==
  IF ~IsValue(v) THEN Absent
  ELSE IF IsCallable(v) /\ Has(v, "arguments") /\ Has(loc, "index")
  THEN IF loc.index < Len(v.arguments) THEN v.arguments[loc.index + 1] ELSE Absent
  ELSE IF IsArray(v) /\ Has(loc, "index")
  THEN IF loc.index < Len(v.elements) THEN v.elements[loc.index + 1] ELSE Absent
  ELSE IF IsDict(v) /\ Has(loc, "name")
  THEN IF HasKey(v.entries, loc.name) THEN Get(v.entries, loc.name) ELSE Absent
  ELSE Absent

\* reading a root along a path of locators
RECURSIVE ReadAt(_, _)
ReadAt(root, path) ==
  IF Len(path) = 0 THEN root
  ELSE ReadAt(Child(root, path[1]), Tail(path))

\* repeated zipperDescend from a root along a path of locators
RECURSIVE DescendAlong(_, _, _)
DescendAlong(z, node, path) ==
  IF Len(path) = 0 THEN z
  ELSE DescendAlong(zipperDescend(z, node, path[1]), Child(node, path[1]), Tail(path))

\* the locators of a compound node: its children, and the place where a new
\* argument, element or key would go
NewKey == <<"z">>
Locators(v) ==
  IF IsCallable(v) THEN {IndexLoc(i) : i \in 0..Len(v.arguments)}
  ELSE IF IsArray(v) THEN {IndexLoc(i) : i \in 0..Len(v.elements)}
  ELSE IF IsDict(v) THEN {KeyLoc(key) : key \in Range(Keys(v.entries)) \cup {NewKey}}
  ELSE {}


\* the trees the zippers are built on: values of the shapes the generator
\* and the mutator make
PtrOf(dist, sourceIndex) == DistPtr(hashValueDistribution(dist), sourceIndex)
NumberValue(num) == PrimitiveValue("number", PtrOf(DistNumber, 0), NumberPayload(num))
StringValue(str) == PrimitiveValue("string", PtrOf(DistString, 0), StringPayload(str))

RootStack ==
  ClassInstantiation(FqnStack, PtrOf(DistRefTo(FqnStack), 0), <<"scope", "id", "props">>,
    << ScopeValue(PtrOf(DistScope, 0)),
       stringPrim(<<"M", "y", "S", "t">>, PtrOf(DistConstructId, 0)),
       StructLiteral(FqnS, PtrOf(DistOptRefTo(FqnS), 1),
         << [key |-> <<"n">>, value |-> StringValue(<<"a">>)],
            [key |-> <<"s">>, value |-> NoValue(PtrOf(DistOptRefTo(FqnS), 0))],
            [key |-> <<"l">>,
             value |-> ArrayValue(PtrOf(DistArrayOfNumber, 0),
                                  <<NumberValue(1), NumberValue(2), NumberValue(3)>>)],
            [key |-> <<"t">>,
             value |-> MapLiteral(PtrOf(DistMapOfString, 0),
                                  << [key |-> <<"b">>, value |-> StringValue(<<"a">>)],
                                     [key |-> <<"a">>, value |-> StringValue(<<"b">>)] >>)] >>) >>)

RootCall ==
  ClassInstantiation(FqnA, PtrOf(DistRefTo(FqnA), 0), <<"b">>,
    << ClassInstantiation(FqnB, PtrOf(DistRefTo(FqnB), 0), <<"a">>,
         << StaticMethodCall(FqnA, PtrOf(DistRefTo(FqnA), 1), "of", <<"n">>,
                             <<NumberValue(1)>>, FqnA) >>) >>)

RootStruct == RootStack.arguments[3]

ZipperRoots == {RootStack, RootCall, RootStruct}

\* the values that are set
Replacements ==
  { NumberValue(9),
    NoValue(PtrOf(DistOptNumber, 0)),
    ArrayValue(PtrOf(DistArrayOfNumber, 0), <<NumberValue(9)>>) }

InitZipper ==
  /\ zroot \in ZipperRoots
  /\ zpath = <<>>
  /\ zzip = <<>>
  /\ zfocus = zroot
  /\ zout = None
  /\ EngineUnused /\ DistUnused /\ PlanUnused /\ ExploreUnused /\ SideUnused

\* zipperDescend(z, v, loc) on the focused node
ZDescend(loc) ==
  /\ IsNone(zout)
  /\ Len(zpath) < MaxZipperDepth
  /\ loc \in Locators(zfocus)
  /\ zzip' = zipperDescend(zzip, zfocus, loc)
  /\ zpath' = Append(zpath, loc)
  /\ zfocus' = Child(zfocus, loc)
  /\ UNCHANGED <<zroot, zout, engineVars, distVars, planVars, exploreVars, sideVars>>

\* zipperSet(z, x)
ZSet(x) ==
  /\ IsNone(zout)
  /\ zout' = [op |-> "set", x |-> x, root |-> zipperSet(zzip, x)]
  /\ UNCHANGED <<zroot, zpath, zzip, zfocus, engineVars, distVars, planVars, exploreVars, sideVars>>

\* zipperDelete(z)
ZDelete ==
  /\ IsNone(zout)
  /\ zout' = [op |-> "delete", root |-> zipperDelete(zzip)]
  /\ UNCHANGED <<zroot, zpath, zzip, zfocus, engineVars, distVars, planVars, exploreVars, sideVars>>

\* zipperDelete(z), then zipperSet(z2, x) with the zipper z2 of the same
\* locators in the tree the deletion returned; next to it zipperSet(z, x)
ZDeleteThenSet(x) ==
  /\ IsNone(zout)
  /\ Len(zpath) > 0 /\ ~IsAbsent(zfocus)
  /\ LET deleted == zipperDelete(zzip)
     IN zout' = [op |-> "delete-set", x |-> x, deleted |-> deleted,
                 root |-> zipperSet(DescendAlong(<<>>, deleted, zpath), x),
                 setAlone |-> zipperSet(zzip, x)]
  /\ UNCHANGED <<zroot, zpath, zzip, zfocus, engineVars, distVars, planVars, exploreVars, sideVars>>

NextZipper ==
  \/ \E loc \in Locators(zfocus) : ZDescend(loc)
  \/ \E x \in Replacements : ZSet(x)
  \/ ZDelete
  \/ \E x \in Replacements : ZDeleteThenSet(x)

SpecZipper == InitZipper /\ [][NextZipper]_vars


(***************************************************************************)
(* statements.ts: discretize.  The closure's statements and varCtr are     *)
(* threaded through the recursion as st; nestingLevel, which withNesting   *)
(* raises for the time of its block, is a parameter.                       *)
(***************************************************************************)
Variable(variableName) == [type |-> "variable", variableName |-> variableName]
Assignment(variableName, v) ==
  [type |-> "assignment", variableName |-> variableName, value |-> v]
Expression(v) == [type |-> "expression", value |-> v]

\* String.prototype.toLowerCase on the letters the FQNs are written with
toLowerCase(c) ==
  CASE c = "A" -> "a" [] c = "B" -> "b" [] c = "E" -> "e" [] c = "K" -> "k"
    [] c = "S" -> "s" [] c = "X" -> "x" [] OTHER -> c

\* util.ts lcfirst
lcfirst(x) == IF Len(x) = 0 THEN x ELSE <<toLowerCase(x[1])>> \o Tail(x)

\* makeVariableName: the name, and varCtr after
makeVariableName(fqn, varCtr) ==
  LET variableName == lcfirst(classNameFromFqn(fqn))
      i == (IF HasKey(varCtr, variableName) THEN Get(varCtr, variableName) ELSE 0) + 1
  IN [name |-> variableName \o (IF i > 1 THEN NumberToString(i) ELSE <<>>),
      varCtr |-> SpreadSet(varCtr, variableName, i)]

\* extract: push an Assignment, return the Variable
extract(x, namingHint, st) ==
  LET made == makeVariableName(namingHint, st.varCtr)
  IN [value |-> Variable(made.name),
      st |-> [statements |-> Append(st.statements, Assignment(made.name, x)),
              varCtr |-> made.varCtr]]

\* maybeExtract: if (nestingLevel === 0) { return x; }
extractionEnabled(nestingLevel) == nestingLevel # 0

maybeExtract(x, namingHint, st, nestingLevel) ==
  IF ~extractionEnabled(nestingLevel) THEN [value |-> x, st |-> st]
  ELSE IF x.type # "class-instantiation" /\ x.type # "static-method-call"
  THEN [value |-> x, st |-> st]
  ELSE extract(x, namingHint, st)

RECURSIVE recurse(_, _, _)
RECURSIVE recurseAll(_, _, _)
RECURSIVE recurseEntries(_, _, _)
\* xs.map(recurse)
recurseAll(xs, st, nestingLevel) ==
  IF Len(xs) = 0 THEN [values |-> <<>>, st |-> st]
  ELSE LET h == recurse(xs[1], st, nestingLevel)
           t == recurseAll(Tail(xs), h.st, nestingLevel)
       IN [values |-> <<h.value>> \o t.values, st |-> t.st]

\* mapValues(x.entries, recurse)
recurseEntries(entries, st, nestingLevel) ==
  IF Len(entries) = 0 THEN [values |-> <<>>, st |-> st]
  ELSE LET h == recurse(entries[1].value, st, nestingLevel)
           t == recurseEntries(Tail(entries), h.st, nestingLevel)
       IN [values |-> <<[key |-> entries[1].key, value |-> h.value]>> \o t.values,
           st |-> t.st]

recurse(x, st, nestingLevel) ==
  IF x.type \in {"object-literal", "map-literal"}
  THEN LET r == recurseEntries(x.entries, st, nestingLevel + 1)
       IN [value |-> [x EXCEPT !.entries = r.values], st |-> r.st]
  ELSE IF x.type = "class-instantiation"
  THEN LET r == recurseAll(x.arguments, st, nestingLevel)
       IN extract([x EXCEPT !.arguments = r.values], x.fqn, r.st)
  ELSE IF x.type = "static-method-call"
  THEN LET r == recurseAll(x.arguments, st, nestingLevel)
       IN maybeExtract([x EXCEPT !.arguments = r.values], x.fqn, r.st, nestingLevel)
  ELSE IF x.type = "array"
  THEN LET r == recurseAll(x.elements, st, nestingLevel)
       IN [value |-> [x EXCEPT !.elements = r.values], st |-> r.st]
  ELSE [value |-> x, st |-> st]

discretize(v) ==
  LET r == recurse(v, [statements |-> <<>>, varCtr |-> <<>>], 0)
      statements == r.st.statements
  IN IF r.value.type = "variable"
     THEN [j \in 1..Len(statements) |->
             IF statements[j].type = "assignment"
                /\ statements[j].variableName = r.value.variableName
             THEN Expression(statements[j].value)
             ELSE statements[j]]
     ELSE Append(statements, Expression(r.value))


(***************************************************************************)
(* values.ts: valueEquals                                                  *)
(***************************************************************************)
RECURSIVE valueEquals(_, _)
valueEquals(a, b) ==
  IF a.type = "array"
  THEN /\ b.type = "array"
       /\ Len(a.elements) = Len(b.elements)
       /\ \A i \in 1..Len(a.elements) : valueEquals(a.elements[i], b.elements[i])
  ELSE IF a.type = "class-instantiation"
  THEN b.type = "class-instantiation" /\ a.fqn = b.fqn
  ELSE IF a.type \in {"map-literal", "object-literal"}
  THEN /\ b.type = a.type
       /\ Len(Keys(a.entries)) = Len(Keys(b.entries))
       /\ \A i \in 1..Len(a.entries) :
            /\ HasKey(b.entries, a.entries[i].key)
            /\ valueEquals(a.entries[i].value, Get(b.entries, a.entries[i].key))
  ELSE IF a.type \in {"no-value", "scope"}
  THEN b.type = a.type
  ELSE IF a.type = "variable"
  THEN b.type = "variable" /\ a.variableName = b.variableName
  ELSE IF a.type = "primitive"
  THEN b.type = "primitive" /\ b.primitive = a.primitive /\ a.value = b.value
  ELSE IF a.type = "static-method-call"
  THEN b.type = "static-method-call" /\ a.fqn = b.fqn /\ a.staticMethod = b.staticMethod
  ELSE a.type = b.type /\ a.fqn = b.fqn /\ a.staticProperty = b.staticProperty

(***************************************************************************)
(* evaluate.ts: the Evaluator.  The host library is what require() finds:  *)
(* classes are functions, enums are objects, structs are erased, module X  *)
(* is not installed.  A runtime value is a record per kind; a call on the  *)
(* host is written to the log, which is what ends up in the stack's        *)
(* template.                                                               *)
(***************************************************************************)
HostClasses == {FqnA, FqnB, FqnA2, FqnK, FqnStack}
HostEnums == {FqnE}
HostStaticMethods == {<<FqnA, "of">>}
\* a constructor of the host library that validates its arguments: A2 does
\* not take an empty list
HostRejects(fqn, args) ==
  /\ fqn = FqnA2 /\ Len(args) > 0
  /\ Has(args[1], "array") /\ args[1].array = <<>>

Undefined == [undefined |-> TRUE]
TheStack == [stack |-> "Stack"]

\* resolveType(fqn): the symbol, undefined, or the error require throws
resolveType(fqn) ==
  IF fqn \in HostClasses THEN [typeof |-> "function", fqn |-> fqn]
  ELSE IF fqn \in HostEnums THEN [typeof |-> "object", fqn |-> fqn]
  ELSE IF fqn = FqnX THEN Threw("Cannot find module")
  ELSE Undefined

\* assertCallable(x): the error it throws, or None
assertCallable(x) ==
  IF Has(x, "typeof") /\ x.typeof = "function" THEN None
  ELSE Threw("Expected a callable")

\* the mutant of the lookup in the variables map: nothing is ever found
variablesHasNothing(vs, variableName) == FALSE
\* this.variables.has(name)
variablesHas(vs, variableName) == HasKey(vs, variableName)

EvalThrew(msg, log) == [thrown |-> Threw(msg), log |-> log]
EvalOk(v, log) == [value |-> v, log |-> log]
EvalFailed(r) == Has(r, "thrown")

RECURSIVE evaluate(_, _, _)
RECURSIVE evaluateAll(_, _, _)
RECURSIVE evaluateEntries(_, _, _)
\* xs.map(e => this.evaluate(e)), in order
evaluateAll(xs, vs, log) ==
  IF Len(xs) = 0 THEN [value |-> <<>>, log |-> log]
  ELSE LET h == evaluate(xs[1], vs, log)
       IN IF EvalFailed(h) THEN h
          ELSE LET t == evaluateAll(Tail(xs), vs, h.log)
               IN IF EvalFailed(t) THEN t
                  ELSE [value |-> <<h.value>> \o t.value, log |-> t.log]

\* Object.fromEntries(Object.entries(plan.entries).map(([k, v]) => [k, evaluate(v)]))
evaluateEntries(entries, vs, log) ==
  IF Len(entries) = 0 THEN [value |-> <<>>, log |-> log]
  ELSE LET h == evaluate(entries[1].value, vs, log)
       IN IF EvalFailed(h) THEN h
          ELSE LET t == evaluateEntries(Tail(entries), vs, h.log)
               IN IF EvalFailed(t) THEN t
                  ELSE [value |-> <<[key |-> entries[1].key, value |-> h.value]>>
                                    \o t.value,
                        log |-> t.log]

evaluate(plan, vs, log) ==
  IF plan.type = "no-value" THEN EvalOk(Undefined, log)
  ELSE IF plan.type = "primitive" THEN EvalOk(plan.value, log)
  ELSE IF plan.type = "scope" THEN EvalOk(TheStack, log)
  ELSE IF plan.type = "array"
  THEN LET r == evaluateAll(plan.elements, vs, log)
       IN IF EvalFailed(r) THEN r ELSE EvalOk([array |-> r.value], r.log)
  ELSE IF plan.type \in {"object-literal", "map-literal"}
  THEN LET r == evaluateEntries(plan.entries, vs, log)
       IN IF EvalFailed(r) THEN r ELSE EvalOk([object |-> r.value], r.log)
  ELSE IF plan.type = "class-instantiation"
  THEN LET type == resolveType(plan.fqn)
       IN IF IsThrown(type) THEN [thrown |-> type, log |-> log]
          ELSE IF IsThrown(assertCallable(type))
          THEN [thrown |-> assertCallable(type), log |-> log]
          ELSE LET r == evaluateAll(plan.arguments, vs, log)
               IN IF EvalFailed(r) THEN r
                  ELSE IF HostRejects(plan.fqn, r.value)
                  THEN EvalThrew("Validation failed", r.log)
                  ELSE EvalOk([instance |-> plan.fqn, arguments |-> r.value],
                              Append(r.log, [construct |-> plan.fqn,
                                             arguments |-> r.value]))
  ELSE IF plan.type = "static-method-call"
  THEN LET type == resolveType(plan.fqn)
       IN IF IsThrown(type) THEN [thrown |-> type, log |-> log]
          ELSE IF type = Undefined
          THEN EvalThrew("TypeError: Cannot read properties of undefined", log)
          ELSE IF IsThrown(assertCallable(type))
          THEN [thrown |-> assertCallable(type), log |-> log]
          ELSE LET r == evaluateAll(plan.arguments, vs, log)
               IN IF EvalFailed(r) THEN r
                  ELSE IF <<plan.fqn, plan.staticMethod>> \notin HostStaticMethods
                  THEN EvalThrew("TypeError: Function.prototype.apply was called on undefined",
                                 r.log)
                  ELSE EvalOk([result |-> plan.fqn, staticMethod |-> plan.staticMethod,
                               arguments |-> r.value],
                              Append(r.log, [apply |-> plan.fqn,
                                             staticMethod |-> plan.staticMethod,
                                             arguments |-> r.value]))
  ELSE IF plan.type = "static-property"
  THEN LET type == resolveType(plan.fqn)
       IN IF IsThrown(type) THEN [thrown |-> type, log |-> log]
          ELSE IF type = Undefined
          THEN EvalThrew("TypeError: Cannot read properties of undefined", log)
          ELSE EvalOk([member |-> plan.fqn, staticProperty |-> plan.staticProperty], log)
  ELSE IF ~variablesHas(vs, plan.variableName)
  THEN EvalThrew("Undefined variable", log)
  ELSE EvalOk(Get(vs, plan.variableName), log)

\* evaluateStatement(s): what it returned or threw, the variables and the
\* host calls after
evaluateStatement(s, vs, log) ==
  IF s.type = "assignment"
  THEN IF variablesHas(vs, s.variableName)
       THEN [thrown |-> Threw("Variable name already used"), log |-> log, variables |-> vs]
       ELSE LET r == evaluate(s.value, vs, log)
            IN IF EvalFailed(r) THEN [thrown |-> r.thrown, log |-> r.log, variables |-> vs]
               ELSE [value |-> r.value, log |-> r.log,
                     variables |-> SpreadSet(vs, s.variableName, r.value)]
  ELSE LET r == evaluate(s.value, vs, log)
       IN IF EvalFailed(r) THEN [thrown |-> r.thrown, log |-> r.log, variables |-> vs]
          ELSE [value |-> r.value, log |-> r.log, variables |-> vs]

\* synth(plan) from statement number from on: the host calls of the whole
\* run (the template), or what was thrown
RECURSIVE synth(_, _, _)
synth(plan, vs, log) ==
  IF Len(plan) = 0 THEN [template |-> log]
  ELSE LET r == evaluateStatement(plan[1], vs, log)
       IN IF EvalFailed(r) THEN [thrown |-> r.thrown, log |-> r.log]
          ELSE synth(Tail(plan), r.variables, r.log)


(***************************************************************************)
(* printAndSynth (cli.ts): a Value, read from a saved file or handed over  *)
(* by the explore loop, is discretized and the statements are evaluated    *)
(* one after the other by a new Evaluator.                                 *)
(***************************************************************************)
\* the sequences of at most len members of a set
SeqsUpTo(S, len) == UNION {[1..m -> S] : m \in 0..len}

New(fqn, arguments) ==
  ClassInstantiation(fqn, PtrOf(DistRefTo(fqn), 0),
                     [j \in 1..Len(arguments) |-> "p"], arguments)
CallOf(arguments) ==
  StaticMethodCall(FqnA, PtrOf(DistRefTo(FqnA), 1), "of",
                   [j \in 1..Len(arguments) |-> "p"], arguments, FqnA)
EntriesOf(keys, vs) == [j \in 1..Len(vs) |-> [key |-> keys[j], value |-> vs[j]]]
FieldKeys == <<<<"n">>, <<"s">>, <<"l">>>>
MapKeys == <<<<"a">>, <<"b">>, <<"c">>>>

PlanLeaves ==
  { NumberValue(1), NumberValue(2), NoValue(PtrOf(DistOptNumber, 0)),
    ScopeValue(PtrOf(DistScope, 0)),
    StaticPropertyAccess(FqnE, PtrOf(DistRefTo(FqnE), 0), "X", FqnE) }

\* calls with plain arguments
PlanInnerOf(len) ==
  PlanLeaves
  \cup {New(fqn, arguments) : fqn \in {FqnA, FqnA2, FqnB},
                              arguments \in SeqsUpTo({NumberValue(1), NumberValue(2)}, len)}
  \cup {CallOf(arguments) : arguments \in SeqsUpTo({NumberValue(1), NumberValue(2)}, len)}
PlanInner == PlanInnerOf(MaxPlanArgs)

\* what the compound values below hold
PlanSmall ==
  { NumberValue(1), NoValue(PtrOf(DistOptNumber, 0)),
    New(FqnA, <<>>), New(FqnA, <<New(FqnA, <<>>)>>), New(FqnA2, <<>>),
    New(FqnX, <<>>), CallOf(<<NumberValue(1)>>) }

\* a call, an array, a struct or a map around those
PlanOuterOf(len) ==
  UNION { { New(FqnA2, xs), New(FqnB, xs), New(FqnS, xs), CallOf(xs),
            ArrayValue(PtrOf(DistArrayOfNumber, 0), xs),
            StructLiteral(FqnS, PtrOf(DistRefTo(FqnS), 0), EntriesOf(FieldKeys, xs)),
            MapLiteral(PtrOf(DistMapOfString, 0), EntriesOf(MapKeys, xs)) }
          : xs \in SeqsUpTo(PlanSmall, len) }
PlanOuter == PlanOuterOf(MaxPlanArgs)

PlanValues == PlanInner \cup PlanOuter

\* the Values a second file may hold, to be compared with the first
PlanOthers == PlanInnerOf(MaxOtherArgs) \cup PlanOuterOf(MaxOtherArgs)

InitPlan ==
  /\ pvalue \in PlanValues
  /\ program = <<>> /\ variables = <<>> /\ hostCalls = <<>>
  /\ ppc = 0 /\ pphase = "read" /\ pout = None /\ pcompare = None
  /\ EngineUnused /\ ZipperUnused /\ DistUnused /\ ExploreUnused /\ SideUnused

\* let program = discretize(value)
Discretize ==
  /\ pphase = "read" /\ IsNone(pcompare)
  /\ program' = discretize(pvalue)
  /\ pphase' = "synth"
  /\ UNCHANGED <<pvalue, variables, hostCalls, ppc, pout, pcompare,
                 engineVars, zipperVars, distVars, exploreVars, sideVars>>

\* synth: this.evaluateStatement(stmt) for the next statement of the plan
EvaluateStatement ==
  /\ pphase = "synth" /\ ppc < Len(program)
  /\ LET r == evaluateStatement(program[ppc + 1], variables, hostCalls)
     IN /\ variables' = r.variables
        /\ hostCalls' = r.log
        /\ IF EvalFailed(r)
           THEN /\ pout' = r.thrown
                /\ pphase' = "failed"
                /\ ppc' = ppc
           ELSE /\ pout' = [returned |-> r.value]
                /\ pphase' = "synth"
                /\ ppc' = ppc + 1
  /\ UNCHANGED <<pvalue, program, pcompare, engineVars, zipperVars, distVars, exploreVars, sideVars>>

\* synth: the loop is over, the template of the stack is returned
SynthReturn ==
  /\ pphase = "synth" /\ ppc = Len(program)
  /\ pphase' = "done"
  /\ pout' = [template |-> hostCalls]
  /\ UNCHANGED <<pvalue, program, variables, hostCalls, ppc, pcompare,
                 engineVars, zipperVars, distVars, exploreVars, sideVars>>

\* printAndSynth of this Value and of another one that valueEquals holds
\* equal to it, each with a new Evaluator
SynthEqual(other) ==
  /\ pphase = "read" /\ IsNone(pcompare)
  /\ valueEquals(pvalue, other)
  /\ pcompare' = [other |-> other,
                  mine |-> synth(discretize(pvalue), <<>>, <<>>),
                  theirs |-> synth(discretize(other), <<>>, <<>>)]
  /\ UNCHANGED <<pvalue, program, variables, hostCalls, ppc, pphase, pout,
                 engineVars, zipperVars, distVars, exploreVars, sideVars>>

NextPlan ==
  \/ Discretize
  \/ EvaluateStatement
  \/ SynthReturn
  \/ \E other \in PlanOthers : SynthEqual(other)

SpecPlan == InitPlan /\ [][NextPlan]_vars

(***************************************************************************)
(* The explore command (cli.ts): one minimal value, then args.variants     *)
(* rounds of a new ValueMutator with one variant, printAndSynth of the     *)
(* candidate, the Histogram of the outcomes and the files saved with -o.   *)
(***************************************************************************)
\* the mutant of Histogram.add: the count is not carried on
HistogramAddOnce(histo, x) == SpreadSet(histo, x, 1)
\* Histogram.add(x)
HistogramAdd(histo, x) == SpreadSet(histo, x, (IF HasKey(histo, x) THEN Get(histo, x) ELSE 0) + 1)

\* the text JSON.stringify makes of a Value, one number per token
CharCode(c) ==
  IF \E i \in 1..Len(ALPHABET_CHARS) : ALPHABET_CHARS[i] = c
  THEN IndexOf(ALPHABET_CHARS, c) ELSE 0
StringJson(str) == <<1>> \o [i \in 1..Len(str) |-> 10 + CharCode(str[i])] \o <<1>>
TypeNames ==
  <<"class-instantiation", "static-method-call", "static-property", "object-literal",
    "map-literal", "array", "primitive", "no-value", "scope", "variable">>
MemberNames == <<"of", "INSTANCE", "X", "Y">>
PayloadJson(payload) ==
  IF Has(payload, "number") THEN <<2, payload.number>>
  ELSE IF Has(payload, "string") THEN StringJson(payload.string)
  ELSE IF Has(payload, "boolean") THEN <<IF payload.boolean THEN 3 ELSE 4>>
  ELSE <<5, payload.date>>

RECURSIVE ValueJson(_)
RECURSIVE ValuesJson(_)
RECURSIVE EntriesJson(_)
ValuesJson(xs) ==
  IF Len(xs) = 0 THEN <<>> ELSE ValueJson(xs[1]) \o <<6>> \o ValuesJson(Tail(xs))
EntriesJson(entries) ==
  IF Len(entries) = 0 THEN <<>>
  ELSE StringJson(entries[1].key) \o ValueJson(entries[1].value) \o <<6>>
       \o EntriesJson(Tail(entries))
ValueJson(v) ==
  IF ~IsValue(v) THEN <<7>>
  ELSE <<8, IndexOf(TypeNames, v.type)>>
       \o (IF Has(v, "fqn") THEN StringJson(v.fqn) ELSE <<>>)
       \o (IF Has(v, "distPtr") THEN <<v.distPtr.distId, v.distPtr.sourceIndex>> ELSE <<>>)
       \o (IF Has(v, "staticMethod") THEN <<IndexOf(MemberNames, v.staticMethod)>> ELSE <<>>)
       \o (IF Has(v, "staticProperty") THEN <<IndexOf(MemberNames, v.staticProperty)>> ELSE <<>>)
       \o (IF Has(v, "parameterNames") THEN <<Len(v.parameterNames)>> ELSE <<>>)
       \o (IF Has(v, "arguments") THEN ValuesJson(v.arguments) ELSE <<>>)
       \o (IF Has(v, "elements") THEN ValuesJson(v.elements) ELSE <<>>)
       \o (IF Has(v, "entries") THEN EntriesJson(v.entries) ELSE <<>>)
       \o (IF Has(v, "primitive") THEN <<IndexOf(PrimitiveNames, v.primitive)>> ELSE <<>>)
       \o (IF Has(v, "value") THEN PayloadJson(v.value) ELSE <<>>)
       \o <<9>>

\* hashJsonObject(value, 32): the 32 hex digits hold the whole digest
hashValue(v) == Digest(ValueJson(v))

\* saveValue(directory, value): writeJson under the hash of the value
saveValue(files, v) == SpreadSet(files, hashValue(v), v)

\* every node of a Value has a type
RECURSIVE AllTyped(_)
AllTyped(v) ==
  /\ IsValue(v)
  /\ Has(v, "arguments") => \A j \in 1..Len(v.arguments) : AllTyped(v.arguments[j])
  /\ Has(v, "elements") => \A j \in 1..Len(v.elements) : AllTyped(v.elements[j])
  /\ Has(v, "entries") => \A j \in 1..Len(v.entries) : AllTyped(v.entries[j].value)

\* printAndSynth(value, verbose = 0, synth): what it throws, or None.
\* discretize reads v.type of what recurse returned for the root, and
\* the Evaluator reads plan.type of every node it comes to
printAndSynth(v, synthFlag) ==
  IF ~IsValue(v) THEN Threw("Cannot read properties of undefined")
  ELSE IF ~synthFlag THEN None
  ELSE IF ~AllTyped(v) THEN Threw("Cannot read properties of undefined")
  ELSE LET r == synth(discretize(v), <<>>, <<>>)
       IN IF EvalFailed(r) THEN r.thrown ELSE None

InitExplore ==
  /\ input \in UNION {{[model |-> m, fqn |-> fqn, synth |-> sy, output |-> out]
                         : fqn \in Targets(m), sy \in BOOLEAN, out \in BOOLEAN}
                      : m \in SampleModels}
  /\ model = input.model
  /\ rng = NewRandom
  /\ constructCounter = <<>>
  /\ stack = <<>> /\ ret = None /\ recursionBreaker = {}
  /\ n = 0 /\ k = 0 /\ proposedMutations = <<>>
  /\ phase = "idle" /\ value = None /\ variants = None /\ thrown = None
  /\ returned = <<>> /\ rounds = 0
  /\ ZipperUnused /\ DistUnused /\ PlanUnused /\ ExploreUnused /\ SideUnused

\* let value = gen.minimal(args.FQN)
ExploreMinimal == estep = "start" /\ Len(returned) = 0 /\ CallMinimal

\* minimal has returned: await printAndSynth(value); an error of minimal
\* ends the command
ExploreFirst ==
  /\ estep = "start" /\ Idle /\ Len(returned) = 1
  /\ IF IsThrown(thrown)
     THEN estep' = "aborted" /\ eout' = eout
     ELSE estep' = "first" /\ eout' = printAndSynth(value, input.synth)
  /\ UNCHANGED <<engineVars, results, saved, trail, zipperVars, distVars, planVars, sideVars>>

\* printAndSynth has returned: with -o, saveValue(value); its error ends
\* the command
ExploreFirstSave ==
  /\ estep = "first"
  /\ IF IsThrown(eout)
     THEN /\ estep' = "aborted"
          /\ saved' = saved
     ELSE /\ estep' = "loop"
          /\ saved' = IF input.output THEN saveValue(saved, value) ELSE saved
  /\ UNCHANGED <<engineVars, results, eout, trail, zipperVars, distVars, planVars, sideVars>>

\* i < args.variants: new ValueMutator(model, random, { variants: 1 }).mutate(value)
ExploreMutate ==
  /\ estep = "loop"
  /\ NewMutator(1)
  /\ estep' = "mutate"
  /\ trail' = Append(trail, [mutated |-> value])
  /\ UNCHANGED <<results, saved, eout>>

\* mutate has returned: proposedValue = mutate(value)[0], and in the try
\* block await printAndSynth(proposedValue); an error of mutate ends the
\* command
ExploreTry ==
  /\ estep = "mutate" /\ Idle
  /\ IF IsThrown(thrown)
     THEN estep' = "aborted" /\ eout' = eout
     ELSE estep' = "try" /\ eout' = printAndSynth(variants.items[1], input.synth)
  /\ UNCHANGED <<engineVars, results, saved, trail, zipperVars, distVars, planVars, sideVars>>

\* the rest of the try block, or the catch block, and i++
ExploreNext ==
  /\ estep = "try"
  /\ estep' = "loop"
  /\ variants' = None
  /\ IF IsThrown(eout)
     THEN /\ results' = HistogramAdd(results, eout.threw)
          /\ saved' = saved
          /\ value' = value
     ELSE /\ results' = HistogramAdd(results, "<success>")
          /\ saved' = IF input.output THEN saveValue(saved, value) ELSE saved
          /\ value' = variants.items[1]
  /\ trail' = [trail EXCEPT ![Len(trail)] =
                 [mutated |-> @.mutated, proposed |-> variants.items[1],
                  outcome |-> eout, after |-> value']]
  /\ UNCHANGED <<generatorVars, mutatorVars, input, phase, thrown, returned, rounds,
                 eout, zipperVars, distVars, planVars, sideVars>>

\* i = args.variants: the loop is over
ExploreDone ==
  /\ estep = "loop" /\ rounds = MaxRounds
  /\ estep' = "done"
  /\ UNCHANGED <<engineVars, results, saved, eout, trail, zipperVars, distVars, planVars, sideVars>>

NextExplore ==
  \/ ExploreMinimal
  \/ MinimalSteps
  \/ ExploreFirst
  \/ ExploreFirstSave
  \/ ExploreMutate
  \/ MutateSteps
  \/ ExploreTry
  \/ ExploreNext
  \/ ExploreDone

SpecExplore == InitExplore /\ [][NextExplore]_vars




(***************************************************************************)
(* Properties of the zipper (checked under SpecZipper).                    *)
(***************************************************************************)
ZDid(op) == ~IsNone(zout) /\ zout.op = op

\* the children of a compound node that are addressed by position
Children(v) == IF IsCallable(v) THEN v.arguments ELSE v.elements

\* equality of trees in which the entries of a struct or map are compared
\* key by key, in whatever order they were inserted
RECURSIVE SameTree(_, _)
SameTree(a, b) ==
  IF ~IsValue(a) \/ ~IsValue(b) THEN a = b
  ELSE IF DOMAIN a # DOMAIN b THEN FALSE
  ELSE IF Has(a, "entries")
  THEN /\ [a EXCEPT !.entries = <<>>] = [b EXCEPT !.entries = <<>>]
       /\ Range(Keys(a.entries)) = Range(Keys(b.entries))
       /\ \A key \in Range(Keys(a.entries)) :
            SameTree(Get(a.entries, key), Get(b.entries, key))
  ELSE IF Has(a, "arguments")
  THEN /\ [a EXCEPT !.arguments = <<>>] = [b EXCEPT !.arguments = <<>>]
       /\ Len(a.arguments) = Len(b.arguments)
       /\ \A j \in 1..Len(a.arguments) : SameTree(a.arguments[j], b.arguments[j])
  ELSE IF Has(a, "elements")
  THEN /\ [a EXCEPT !.elements = <<>>] = [b EXCEPT !.elements = <<>>]
       /\ Len(a.elements) = Len(b.elements)
       /\ \A j \in 1..Len(a.elements) : SameTree(a.elements[j], b.elements[j])
  ELSE a = b

\* C7: for every zipper built by repeated zipperDescend from a root along a
\* path of locators and every value x, the root zipperSet(z, x) returns has
\* x at that path, at every nesting depth.
C7_SetThenRead == ZDid("set") => ReadAt(zout.root, zpath) = zout.x

\* a set three locators deep, through an argument index and a field name
C7_Witness ==
  /\ ZDid("set") /\ Len(zpath) >= 3
  /\ Has(zpath[1], "index") /\ Has(zpath[2], "name")
  /\ ReadAt(zout.root, zpath) = zout.x

ZParentPath == SubSeq(zpath, 1, Len(zpath) - 1)
ZLast == zpath[Len(zpath)]

\* C8 as stated: deleting at an address and then setting x at the same
\* address gives, for a struct field or map key, a tree equal to the one of
\* the set alone; for an array index i it puts x back at position i, the
\* array has its original length and all other elements are where they were.
C8_DeleteThenSetRestores ==
  ZDid("delete-set") =>
    IF Has(ZLast, "name")
    THEN SameTree(zout.root, zout.setAlone)
    ELSE IsArray(ReadAt(zroot, ZParentPath)) =>
           LET before == ReadAt(zroot, ZParentPath).elements
               after == ReadAt(zout.root, ZParentPath).elements
           IN /\ Len(after) = Len(before)
              /\ \A j \in 1..Len(before) :
                   after[j] = IF j = ZLast.index + 1 THEN zout.x ELSE before[j]

\* C8 as the code has it: for a struct field or map key the tree is the one
\* of the set alone except that the key is now the last entry; for an array
\* or argument index i, x takes the place of the element that followed the
\* deleted one (the list is one shorter than it was), or is appended when
\* the deleted element was the last.
C8_DeleteThenSetReplaces ==
  ZDid("delete-set") =>
    IF Has(ZLast, "name")
    THEN /\ SameTree(zout.root, zout.setAlone)
         /\ ReadAt(zout.root, ZParentPath).entries
              = Append(unset(ReadAt(zroot, ZParentPath).entries, ZLast.name),
                       [key |-> ZLast.name, value |-> zout.x])
    ELSE LET before == Children(ReadAt(zroot, ZParentPath))
             after == Children(ReadAt(zout.root, ZParentPath))
         IN after = Slice(before, 0, ZLast.index) \o <<zout.x>>
                      \o SliceFrom(before, ZLast.index + 2)

\* a delete and set at an array index that is not the last one
C8_Witness ==
  /\ ZDid("delete-set") /\ Has(ZLast, "index")
  /\ IsArray(ReadAt(zroot, ZParentPath))
  /\ ZLast.index + 1 < Len(ReadAt(zroot, ZParentPath).elements)
  /\ Len(ReadAt(zout.root, ZParentPath).elements)
       = Len(ReadAt(zroot, ZParentPath).elements) - 1

(***************************************************************************)
(* Properties of the registry (checked under SpecDist).                    *)
(***************************************************************************)
\* C9: recording a distribution again returns the same DistRef and leaves
\* the model as it was, and two calls with equal distributions return the
\* same distId, whatever calls were made before and between them.
C9_Idempotent ==
  \A i, j \in 1..Len(recorded) :
    (i < j /\ recorded[i].dist = recorded[j].dist) =>
      /\ recorded[j].outcome = recorded[i].outcome
      /\ recorded[j].after = recorded[j].before

\* a distribution was recorded twice with another one in between
C9_Witness ==
  \E i, j \in 1..Len(recorded) :
    /\ i + 1 < j /\ recorded[i].dist = recorded[j].dist
    /\ recorded[i + 1].dist # recorded[i].dist
    /\ Has(recorded[j].outcome, "distId")

\* C10: a call whose distribution hashes to an existing distId with other
\* content throws the hash-collision error and leaves model.distributions
\* unchanged; every stored entry is keyed by the hash of its own content.
C10_NeverReplaces ==
  /\ \A i \in 1..Len(recorded) :
       LET call == recorded[i]
           distId == hashValueDistribution(call.dist)
       IN (distId \in DOMAIN call.before /\ call.before[distId] # call.dist) =>
            /\ IsThrown(call.outcome)
            /\ call.after = call.before
  /\ \A distId \in DOMAIN distributions :
       hashValueDistribution(distributions[distId]) = distId

\* a call collided with a stored distribution
C10_Witness ==
  \E i \in 1..Len(recorded) :
    /\ hashValueDistribution(recorded[i].dist) \in DOMAIN recorded[i].before
    /\ recorded[i].before[hashValueDistribution(recorded[i].dist)] # recorded[i].dist
    /\ IsThrown(recorded[i].outcome)
    /\ distributions = recorded[i].before

\* the sources of a distribution with every FqnRef replaced by the list
\* fqnSources has for it, or by nothing when it has none
RECURSIVE ExpectedSources(_, _)
ExpectedSources(fqnSources, dist) ==
  IF dist = <<>> THEN <<>>
  ELSE LET last == dist[Len(dist)]
       IN ExpectedSources(fqnSources, SubSeq(dist, 1, Len(dist) - 1))
          \o (IF last.type # "fqn" THEN <<last>>
              ELSE IF last.fqn \in DOMAIN fqnSources THEN fqnSources[last.fqn]
              ELSE <<>>)

NoSourcesFor(src) ==
  /\ src.type = "fqn"
  /\ src.fqn \notin DOMAIN DistFqnSources \/ DistFqnSources[src.fqn] = <<>>

C21_WitnessFailure ==
  /\ Has(dout, "ref")
  /\ dout.result = failure("No values in distribution")
  /\ lookupDist(distributions, dout.ref) # <<>>


(***************************************************************************)
(* Properties of the generator (checked under SpecMinimal) and of the      *)
(* mutator (checked under Spec).                                           *)
(***************************************************************************)
\* C1: for every model, cyclic ones included, and every fqn, a call of
\* minimal(fqn) comes to its end after finitely many steps, with a Value or
\* with an error: a DistPtr that is on the construction stack is not
\* expanded again.
C1_MinimalTerminates == (phase = "minimal") ~> (phase = "idle")

\* minimal has returned a Value for a class of a cyclic type graph, with a
\* class nested in itself through the other one
C1_Witness ==
  /\ phase = "idle" /\ Len(returned) > 0
  /\ input.model = ModelEscape /\ input.fqn = FqnA
  /\ ~IsThrown(returned[1])
  /\ returned[1].arguments[1].arguments[1].fqn = FqnA

\* the slots of the reservoir that hold a variant
FilledSlots == {j \in 1..k : variants.items[j] # Hole}
MutateReturned == Idle /\ ~IsNone(variants)

\* C2 as stated: when mutate has returned after n proposals with k slots,
\* the reservoir holds min(k, n) proposals (all of them when n <= k).
C2_ReservoirHoldsMinKN == MutateReturned => Cardinality(FilledSlots) = Min(k, n)

\* the locators of a zipper, the outermost first
ZipperPath(z) ==
  [j \in 1..Len(z) |->
     LET x == z[Len(z) + 1 - j]
     IN IF Has(x, "argumentIndex") THEN IndexLoc(x.argumentIndex)
        ELSE IF Has(x, "fieldName") THEN KeyLoc(x.fieldName)
        ELSE IF Has(x, "key") THEN KeyLoc(x.key)
        ELSE IndexLoc(x.index)]

\* the tree in which the subtree at a path is replaced (by the one value of
\* repl) or deleted (repl empty) and every node on the way keeps all its
\* attributes and its other children
RECURSIVE ReplacedAt(_, _, _)
ReplacedAt(node, path, repl) ==
  IF Len(path) = 0 THEN repl
  ELSE LET sub == ReplacedAt(Child(node, path[1]), Tail(path), repl)
       IN << IF IsCallable(node)
             THEN [node EXCEPT !.arguments = Splice(@, path[1].index, sub)]
             ELSE IF IsArray(node)
             THEN [node EXCEPT !.elements = Splice(@, path[1].index, sub)]
             ELSE [node EXCEPT !.entries = IF Len(sub) > 0
                                           THEN SpreadSet(@, path[1].name, sub[1])
                                           ELSE unset(@, path[1].name)] >>

\* C3 as stated: every variant mutate(v) returns is v with the subtree at
\* the mutation's path replaced or deleted, every node from the root to that
\* path keeping all its attributes (type, fqn, staticMethod, targetFqn,
\* parameterNames, distPtr) and its other children.
C3_VariantDiffersAtOnePath ==
  MutateReturned =>
    \A j \in FilledSlots :
      LET mut == proposedMutations[j]
      IN <<variants.items[j]>> =
           ReplacedAt(value, ZipperPath(mut.zipper),
                      IF mut.mutation = "set" THEN <<mut.value>> ELSE <<>>)

\* every node of a tree has a distPtr whose sourceIndex is within the
\* resolved distribution it names, and every call has an argument for each
\* of its parameters, with nothing but no-values after the first no-value
RECURSIVE StructurallyValid(_, _)
StructurallyValid(m, v) ==
  /\ Has(v, "distPtr")
  /\ LET sources == resolveDist(m, v.distPtr)
     IN ~isFailure(sources) /\ v.distPtr.sourceIndex < Len(sources.items)
  /\ IsCallable(v) =>
       /\ Len(v.arguments) = Len(v.parameterNames)
       /\ \A i, j \in 1..Len(v.arguments) :
            (i < j /\ v.arguments[i].type = "no-value") => v.arguments[j].type = "no-value"
       /\ \A j \in 1..Len(v.arguments) : StructurallyValid(m, v.arguments[j])
  /\ IsArray(v) => \A j \in 1..Len(v.elements) : StructurallyValid(m, v.elements[j])
  /\ IsDict(v) => \A j \in 1..Len(v.entries) : StructurallyValid(m, v.entries[j].value)

\* C4 as stated: every Value minimal returns is structurally valid.
C4_MinimalIsStructurallyValid ==
  \A j \in 1..Len(returned) :
    ~IsThrown(returned[j]) => StructurallyValid(model, returned[j])

RECURSIVE EveryNodeHasDistPtr(_)
EveryNodeHasDistPtr(v) ==
  /\ valueHasDistPtr(v) => Has(v, "distPtr")
  /\ Has(v, "arguments") => \A j \in 1..Len(v.arguments) : EveryNodeHasDistPtr(v.arguments[j])
  /\ Has(v, "elements") => \A j \in 1..Len(v.elements) : EveryNodeHasDistPtr(v.elements[j])
  /\ Has(v, "entries") => \A j \in 1..Len(v.entries) : EveryNodeHasDistPtr(v.entries[j].value)

\* C5 as stated: in every variant mutate returns each node but a Variable
\* has a distPtr, and a mutate of a variant does not fail on a missing one.
C5_VariantsKeepDistPtr ==
  /\ MutateReturned => \A j \in FilledSlots : EveryNodeHasDistPtr(variants.items[j])
  /\ thrown # Threw("TypeError: Cannot read properties of undefined (reading 'distId')")

\* C6 as stated: two calls of minimal(fqn) that start from equal models and
\* Randoms of the same seed return identical Values, whatever was asked of
\* the plug-ins before.
C6_SameSeedSameValue ==
  \A i, j \in 1..Len(returned) : returned[i] = returned[j]


(***************************************************************************)
(* Properties of discretize and of the Evaluator (checked under SpecPlan). *)
(***************************************************************************)
\* the direct children of a Value
SubValues(v) ==
  IF Has(v, "arguments") THEN v.arguments
  ELSE IF Has(v, "elements") THEN v.elements
  ELSE IF Has(v, "entries") THEN [j \in 1..Len(v.entries) |-> v.entries[j].value]
  ELSE <<>>

\* the names of the Variables that occur in a Value
RECURSIVE VariablesIn(_)
VariablesIn(v) ==
  IF v.type = "variable" THEN {v.variableName}
  ELSE UNION {VariablesIn(SubValues(v)[j]) : j \in 1..Len(SubValues(v))}

\* a Value is or holds a constructor or static method call
RECURSIVE HasCall(_)
HasCall(v) == IsCallable(v) \/ \E j \in 1..Len(SubValues(v)) : HasCall(SubValues(v)[j])

\* a Value is or holds a no-value
RECURSIVE HasNoValue(_)
HasNoValue(v) ==
  v.type = "no-value" \/ \E j \in 1..Len(SubValues(v)) : HasNoValue(SubValues(v)[j])

Discretized == pphase # "read"

\* C11 as stated: two Values that valueEquals holds equal, each evaluated by
\* a new Evaluator on the same host library, make the same calls with the
\* same arguments and give the same artifact.
C11_EqualValuesSameArtifacts == ~IsNone(pcompare) => pcompare.mine = pcompare.theirs

\* C14 as stated: every Variable that occurs in statement i of
\* discretize(v) is bound by exactly one Assignment, at an index below i.
C14_DefinedBeforeUse ==
  Discretized =>
    \A i \in 1..Len(program) : \A name \in VariablesIn(program[i].value) :
      LET binders == {j \in 1..Len(program) :
                        /\ program[j].type = "assignment"
                        /\ program[j].variableName = name}
      IN Cardinality(binders) = 1 /\ \A j \in binders : j < i

\* C15 as stated: in the output of discretize no statement's value holds a
\* ClassInstantiation or StaticMethodCall below its root.
C15_NestedCallsExtracted ==
  Discretized =>
    \A i \in 1..Len(program) :
      \A j \in 1..Len(SubValues(program[i].value)) :
        ~HasCall(SubValues(program[i].value)[j])

\* C16 as stated: discretize returns a non-empty list, the last statement
\* an Expression and all others Assignments.
C16_AssignmentsThenExpression ==
  Discretized =>
    /\ Len(program) > 0
    /\ program[Len(program)].type = "expression"
    /\ \A j \in 1..(Len(program) - 1) : program[j].type = "assignment"

\* a call on a class of the host whose arguments are all plain or Variables
PlainCall(v) ==
  /\ v.type = "class-instantiation" /\ v.fqn \in HostClasses
  /\ \A j \in 1..Len(v.arguments) :
       v.arguments[j].type \in {"variable", "primitive", "no-value", "scope"}

\* C17: an Assignment to a name that is bound fails with 'Variable name
\* already used' before anything is evaluated and leaves the variables as
\* they were; the evaluation of a Variable that is not bound fails with
\* 'Undefined variable'; a statement that fails binds nothing; an
\* Assignment that succeeds adds exactly its one binding, an Expression none.
C17_BindsOnce ==
  [][EvaluateStatement =>
       LET s == program[ppc + 1]
           bound == s.type = "assignment" /\ HasKey(variables, s.variableName)
           unbound == {name \in VariablesIn(s.value) : ~HasKey(variables, name)}
       IN /\ bound => /\ pout' = Threw("Variable name already used")
                      /\ variables' = variables
                      /\ hostCalls' = hostCalls
          /\ (~bound /\ unbound # {}) => pphase' = "failed"
          /\ (~bound /\ unbound # {} /\ PlainCall(s.value))
               => pout' = Threw("Undefined variable")
          /\ pout' = Threw("Undefined variable") => unbound # {}
          /\ pphase' = "failed" => variables' = variables
          /\ pphase' = "synth" =>
               IF s.type = "assignment"
               THEN /\ variables' = SpreadSet(variables, s.variableName, pout'.returned)
                    /\ Len(variables') = Len(variables) + 1
               ELSE variables' = variables]_vars

\* an Assignment to a bound name was refused, after two bindings were made
C17_Witness ==
  /\ pphase = "failed" /\ pout = Threw("Variable name already used")
  /\ Len(variables) = 2 /\ ppc = 2

\* C18 as stated: the evaluation of a no-value, wherever it stands, is an
\* error: no run over a plan that holds one comes to its end.
C18_NoValueIsAnError ==
  pphase = "done" => \A j \in 1..Len(program) : ~HasNoValue(program[j].value)


(***************************************************************************)
(* Further properties of the mutator (Spec) and the generator              *)
(* (SpecMinimal).                                                          *)
(***************************************************************************)
\* C12 as stated: mutate returns at most k elements and each of them is a
\* Value, the input with one proposed mutation applied; no element is
\* absent, however few proposals the walk made.
C12_VariantsAreValues ==
  MutateReturned =>
    /\ Len(variants.items) <= k
    /\ \A j \in 1..Len(variants.items) :
         variants.items[j] # Hole /\ IsValue(variants.items[j])

\* C13 as stated: whatever the first call proposed, a second call of mutate
\* on the same ValueMutator is rejected with 'You can only call mutate
\* once!' and returns nothing.
C13_SecondCallRejected ==
  [][MutateAgain => /\ thrown' = Threw("You can only call mutate once!")
                    /\ variants' = None
                    /\ phase' = "idle"]_vars

\* no struct literal of a tree holds a no-value under one of its keys
RECURSIVE NoValueEntriesAbsent(_)
NoValueEntriesAbsent(v) ==
  /\ v.type = "object-literal" =>
       \A j \in 1..Len(v.entries) : v.entries[j].value.type # "no-value"
  /\ \A j \in 1..Len(SubValues(v)) : NoValueEntriesAbsent(SubValues(v)[j])

\* C19 as stated: a StructLiteral that minimal returns has a key for a
\* field only when the field's minimal value is not a no-value.
C19_NoValueFieldsAbsent ==
  \A j \in 1..Len(returned) :
    ~IsThrown(returned[j]) => NoValueEntriesAbsent(returned[j])

\* C20 as stated: after a call of minimal or mutate, successful or not,
\* model.fqnSources and model.distributions are what they were before.
C20_ModelIsReadOnly ==
  (Idle /\ Len(returned) > 0) =>
    /\ model.fqnSources = input.model.fqnSources
    /\ model.distributions = input.model.distributions



(***************************************************************************)
(* Properties of the explore command (checked under SpecExplore).          *)
(***************************************************************************)
\* the iterations whose try block or catch block has run
Finished == {i \in 1..Len(trail) : Has(trail[i], "outcome")}
\* what an iteration added to the Histogram
Counted(i) == IF IsThrown(trail[i].outcome) THEN trail[i].outcome.threw ELSE "<success>"

\* C22: the current value becomes the candidate only when printAndSynth of
\* the candidate raised nothing; when it raised, the message is counted in
\* the Histogram, the current value stays, and the next iteration mutates
\* that same value.
C22_AdvancesOnlyOnSuccess ==
  /\ \A i \in Finished :
       /\ IsThrown(trail[i].outcome) => trail[i].after = trail[i].mutated
       /\ ~IsThrown(trail[i].outcome) => trail[i].after = trail[i].proposed
       /\ i < Len(trail) => trail[i + 1].mutated = trail[i].after
  /\ Len(trail) > 0 => trail[1].mutated = returned[1]
  /\ (estep \in {"loop", "done"} /\ Len(trail) > 0) => value = trail[Len(trail)].after
  /\ \A j \in 1..Len(results) :
       results[j].value = Cardinality({i \in Finished : Counted(i) = results[j].key})
  /\ \A i \in Finished : HasKey(results, Counted(i))

\* a candidate was rejected by the host library, the same value was mutated
\* again and the second candidate was taken
C22_Witness ==
  /\ estep = "loop" /\ Len(trail) = 2
  /\ IsValue(trail[1].proposed) /\ IsThrown(trail[1].outcome)
  /\ trail[2].mutated = trail[1].mutated
  /\ ~IsThrown(trail[2].outcome) /\ value = trail[2].proposed
  /\ value # trail[1].mutated
  /\ Len(results) = 2

\* C23 as stated: with -o, at the end of the run the saved values are the
\* minimal value and every candidate that was evaluated without an error,
\* the last one included, each in the file named by the hash of its content.
C23_SavesEverySuccess ==
  (estep = "done" /\ input.output) =>
    /\ {saved[j].value : j \in 1..Len(saved)}
         = {returned[1]} \cup {trail[i].proposed : i \in {f \in Finished :
                                                          ~IsThrown(trail[f].outcome)}}
    /\ \A j \in 1..Len(saved) : saved[j].key = hashValue(saved[j].value)

(***************************************************************************)
(* part_003: TypeSystemParser, the construct info tables.  constructInfo   *)
(* holds the tables constructs, structs, enumClasses and integrations and  *)
(* the two integration indexes, each an object listed in insertion order;  *)
(* the diagnostics list, which only collects messages, is left out.        *)
(***************************************************************************)
MaxIntegrations == 2

ConstructType(fqn) == [kind |-> "construct", constructFqn |-> fqn]
StructType(fqn) == [kind |-> "struct", structFqn |-> fqn]
EnumClassType(fqn) == [kind |-> "enum-class", enumClassFqn |-> fqn]
StringType == [kind |-> "primitive", primitive |-> "string"]

\* xs[key] = [] unless present; xs[key].push(value)
addToList(xs, key, v) ==
  SpreadSet(xs, key, Append(IF HasKey(xs, key) THEN Get(xs, key) ELSE <<>>, v))

\* splices every element of del out of xs
deleteInPlace(xs, del) == SelectSeq(xs, LAMBDA x : x \notin del)

removeValueNowhere(xs, v) == xs

\* for (const arr of Object.values(xs)) deleteInPlace(arr, new Set([value]))
removeValue(xs, v) ==
  [i \in 1..Len(xs) |-> [key |-> xs[i].key, value |-> deleteInPlace(xs[i].value, {v})]]

\* undefined, or the failure for a reference to a culled type
checkTypeRef(ci, x) ==
  CASE x.kind = "construct" ->
         IF HasKey(ci.constructs, x.constructFqn) THEN Undefined
         ELSE failure("construct was culled")
    [] x.kind = "struct" ->
         IF HasKey(ci.structs, x.structFqn) THEN Undefined
         ELSE failure("struct was culled")
    [] x.kind = "enum-class" ->
         IF HasKey(ci.enumClasses, x.enumClassFqn) THEN Undefined
         ELSE failure("enum-class was culled")
    [] OTHER -> Undefined

\* removeInvalidTypeRefs(obj[prop]) filters the array in place: obj
\* afterwards and the Result returned; an absent property is undefined
removeInvalidTypeRefs(ci, obj, prop) ==
  IF ~Has(obj, prop) THEN [obj |-> obj, r |-> Undefined]
  ELSE LET kept == SelectSeq(obj[prop], LAMBDA x : ~isFailure(checkTypeRef(ci, x)))
       IN [obj |-> [obj EXCEPT ![prop] = kept],
           r |-> IF Len(kept) = 0 THEN failure("not representable") ELSE Undefined]

\* the TypeSystemParser after recordIntegration(integ)
recordIntegration(ci, ctr, integ) ==
  LET key == <<"i">> \o NumberToString(ctr)
  IN [ci |-> [ci EXCEPT
                !.integrations = SpreadSet(@, key, integ),
                !.integrationsBySource = addToList(@, integ.sourceConstructFqn, key),
                !.integrationsByTarget = addToList(@, integ.targetConstructFqn, key)],
      ctr |-> ctr + 1]

\* the loops of removeNonconstructibleTypes, each over the entries the table
\* had when the loop began; st is [ci, removedType]
RECURSIVE CullConstructs(_, _)
CullConstructs(st, fqns) ==
  IF Len(fqns) = 0 THEN st
  ELSE LET fqn == fqns[1]
           f == removeInvalidTypeRefs(st.ci, Get(st.ci.constructs, fqn), "constructPropertyTypes")
       IN CullConstructs(
            IF isFailure(f.r)
            THEN [ci |-> [st.ci EXCEPT !.constructs = unset(@, fqn)], removedType |-> TRUE]
            ELSE [st EXCEPT !.ci.constructs = SpreadSet(@, fqn, f.obj)],
            Tail(fqns))

\* the inner loop over the properties of one struct; struct is the object
\* the loop holds, which stays in use after it was deleted from the table
RECURSIVE CullProperties(_, _, _, _)
CullProperties(st, fqn, struct, propNames) ==
  IF Len(propNames) = 0
  THEN IF HasKey(st.ci.structs, fqn)
       THEN [st EXCEPT !.ci.structs = SpreadSet(@, fqn, struct)]
       ELSE st
  ELSE LET propName == propNames[1]
           propValue == Get(struct.properties, propName)
           f == removeInvalidTypeRefs(st.ci, propValue, "types")
           filtered == [struct EXCEPT !.properties = SpreadSet(@, propName, f.obj)]
       IN IF ~isFailure(f.r) THEN CullProperties(st, fqn, filtered, Tail(propNames))
          ELSE IF propValue.optional
          THEN CullProperties(st, fqn,
                              [struct EXCEPT !.properties = unset(@, propName)],
                              Tail(propNames))
          ELSE CullProperties([ci |-> [st.ci EXCEPT !.structs = unset(@, fqn)],
                               removedType |-> TRUE],
                              fqn, filtered, Tail(propNames))

RECURSIVE CullStructs(_, _)
CullStructs(st, fqns) ==
  IF Len(fqns) = 0 THEN st
  ELSE LET struct == Get(st.ci.structs, fqns[1])
       IN CullStructs(CullProperties(st, fqns[1], struct, Keys(struct.properties)),
                      Tail(fqns))

\* a factory after its parameters' types were filtered, and whether one of
\* them was left without a type
CullFactory(ci, fac) ==
  LET fs == [i \in 1..Len(fac.parameters) |-> removeInvalidTypeRefs(ci, fac.parameters[i], "types")]
  IN [fac |-> [fac EXCEPT !.parameters = [i \in 1..Len(fac.parameters) |-> fs[i].obj]],
      unusable |-> \E i \in 1..Len(fs) : isFailure(fs[i].r)]

RECURSIVE CullEnumClasses(_, _)
CullEnumClasses(st, fqns) ==
  IF Len(fqns) = 0 THEN st
  ELSE LET fqn == fqns[1]
           enumclass == Get(st.ci.enumClasses, fqn)
           culled == [i \in 1..Len(enumclass.factories) |-> CullFactory(st.ci, enumclass.factories[i])]
           deletableFactories == {culled[i].fac : i \in {j \in 1..Len(culled) : culled[j].unusable}}
           factories == deleteInPlace([i \in 1..Len(culled) |-> culled[i].fac], deletableFactories)
       IN CullEnumClasses(
            IF Len(factories) > 0 \/ Len(enumclass.singletons) > 0
            THEN [st EXCEPT !.ci.enumClasses =
                    SpreadSet(@, fqn, [enumclass EXCEPT !.factories = factories])]
            ELSE [ci |-> [st.ci EXCEPT !.enumClasses = unset(@, fqn)], removedType |-> TRUE],
            Tail(fqns))

RECURSIVE CullIntegrations(_, _)
CullIntegrations(st, keys) ==
  IF Len(keys) = 0 THEN st
  ELSE LET key == keys[1]
           integ == Get(st.ci.integrations, key)
           f == removeInvalidTypeRefs(st.ci, integ, "integrationOptionsTypes")
           fails == SelectSeq(<<checkTypeRef(st.ci, ConstructType(integ.sourceConstructFqn)),
                                checkTypeRef(st.ci, ConstructType(integ.targetConstructFqn)),
                                f.r>>, isFailure)
       IN CullIntegrations(
            IF Len(fails) > 0
            THEN [ci |-> [st.ci EXCEPT
                            !.integrations = unset(@, key),
                            !.integrationsBySource = removeValue(@, key),
                            !.integrationsByTarget = removeValue(@, key)],
                  removedType |-> TRUE]
            ELSE [st EXCEPT !.ci.integrations = SpreadSet(@, key, f.obj)],
            Tail(keys))

\* one pass: the tables afterwards and whether something was removed
removeNonconstructibleTypes(ci) ==
  LET s1 == CullConstructs([ci |-> ci, removedType |-> FALSE], Keys(ci.constructs))
      s2 == CullStructs(s1, Keys(s1.ci.structs))
      s3 == CullEnumClasses(s2, Keys(s2.ci.enumClasses))
  IN CullIntegrations(s3, Keys(s3.ci.integrations))

\* util.ts: ConstructInfoReader
integrationsBySource(ci, fqn) ==
  LET keys == IF HasKey(ci.integrationsBySource, fqn) THEN Get(ci.integrationsBySource, fqn) ELSE <<>>
  IN [i \in 1..Len(keys) |->
        IF HasKey(ci.integrations, keys[i]) THEN Get(ci.integrations, keys[i]) ELSE Undefined]

integrationsByTarget(ci, fqn) ==
  LET keys == IF HasKey(ci.integrationsByTarget, fqn) THEN Get(ci.integrationsByTarget, fqn) ELSE <<>>
  IN [i \in 1..Len(keys) |->
        IF HasKey(ci.integrations, keys[i]) THEN Get(ci.integrations, keys[i]) ELSE Undefined]

\* the tables after the detection of the types of an assembly: enum class E
\* has no factory left and, in the first assembly, no singleton either;
\* struct S requires an E, construct A takes an S, construct B takes a
\* struct of strings and construct K takes no properties
Entry(key, v) == [key |-> key, value |-> v]
InfoOf(singletons) ==
  [constructs |-> <<Entry(FqnA, [fqn |-> FqnA, constructPropertyTypes |-> <<StructType(FqnS)>>]),
                    Entry(FqnB, [fqn |-> FqnB, constructPropertyTypes |-> <<StructType(FqnStack)>>]),
                    Entry(FqnK, [fqn |-> FqnK])>>,
   structs |-> <<Entry(FqnS, [properties |->
                     <<Entry("mode", [types |-> <<EnumClassType(FqnE)>>, optional |-> FALSE]),
                       Entry("peer", [types |-> <<ConstructType(FqnA)>>, optional |-> TRUE])>>]),
                 Entry(FqnStack, [properties |->
                     <<Entry("name", [types |-> <<StringType>>, optional |-> FALSE]),
                       Entry("mode", [types |-> <<EnumClassType(FqnE)>>, optional |-> TRUE])>>])>>,
   enumClasses |-> <<Entry(FqnE, [factories |->
                       <<[methodName |-> "of",
                          parameters |-> <<[types |-> <<ConstructType(FqnX)>>]>>]>>,
                       singletons |-> singletons])>>,
   enums |-> <<>>,
   integrations |-> <<>>,
   integrationsBySource |-> <<>>,
   integrationsByTarget |-> <<>>]
SampleInfos == {InfoOf(<<>>), InfoOf(<<"INSTANCE">>)}

\* the integrations tryIntegrationMethod can come to record
SampleOptions == {<<>>, <<StructType(FqnStack)>>, <<StructType(FqnS), StructType(FqnStack)>>}
SampleIntegrations ==
  {[sourceConstructFqn |-> s, targetConstructFqn |-> t, integrationFqn |-> FqnX,
    integrationOptionsTypes |-> o] : s \in {FqnA, FqnB, FqnX}, t \in {FqnA, FqnB}, o \in SampleOptions}

InitInteg ==
  /\ constructInfo \in SampleInfos
  /\ integrationCtr = 0
  /\ xmodel = None /\ visited = <<>>
  /\ idCounter = <<>> /\ ids = <<>>
  /\ EngineUnused /\ ZipperUnused /\ DistUnused /\ PlanUnused /\ ExploreUnused

RecordIntegration(integ) ==
  /\ integrationCtr < MaxIntegrations
  /\ LET o == recordIntegration(constructInfo, integrationCtr, integ)
     IN constructInfo' = o.ci /\ integrationCtr' = o.ctr
  /\ UNCHANGED <<engineVars, zipperVars, distVars, planVars, exploreVars, extractVars, customVars>>

RemoveNonconstructibleTypes ==
  /\ constructInfo' = removeNonconstructibleTypes(constructInfo).ci
  /\ UNCHANGED <<integrationCtr, engineVars, zipperVars, distVars, planVars, exploreVars,
                 extractVars, customVars>>

NextInteg ==
  \/ \E integ \in SampleIntegrations : RecordIntegration(integ)
  \/ RemoveNonconstructibleTypes

SpecInteg == InitInteg /\ [][NextInteg]_vars

\* C24: the integration indexes agree with the integrations table: for
\* every FQN f, integrationsBySource(f) lists exactly the retained
\* integrations whose source is f and integrationsByTarget(f) exactly those
\* whose target is f, each once; no index holds a key the table lacks.
RetainedWith(field, fqn) ==
  SelectSeq(constructInfo.integrations, LAMBDA e : e.value[field] = fqn)
IndexAgrees(index, field) ==
  /\ \A i \in 1..Len(index) : \A j \in 1..Len(index[i].value) :
       HasKey(constructInfo.integrations, index[i].value[j])
  /\ \A fqn \in {FqnA, FqnB, FqnK, FqnX} :
       LET keys == IF HasKey(index, fqn) THEN Get(index, fqn) ELSE <<>>
       IN keys = Keys(RetainedWith(field, fqn))
C24_IndexesConsistent ==
  constructInfo # None =>
    /\ IndexAgrees(constructInfo.integrationsBySource, "sourceConstructFqn")
    /\ IndexAgrees(constructInfo.integrationsByTarget, "targetConstructFqn")
    /\ \A fqn \in {FqnA, FqnB, FqnK, FqnX} :
         /\ integrationsBySource(constructInfo, fqn)
              = [i \in 1..Len(RetainedWith("sourceConstructFqn", fqn)) |->
                   RetainedWith("sourceConstructFqn", fqn)[i].value]
         /\ integrationsByTarget(constructInfo, fqn)
              = [i \in 1..Len(RetainedWith("targetConstructFqn", fqn)) |->
                   RetainedWith("targetConstructFqn", fqn)[i].value]
\* a culling pass has removed one of two recorded integrations and kept the
\* other, which both indexes still list
C24_Witness ==
  /\ constructInfo # None
  /\ integrationCtr = 2
  /\ Len(constructInfo.integrations) = 1
  /\ \E i \in 1..Len(constructInfo.integrationsBySource) :
       constructInfo.integrationsBySource[i].value = <<<<"i", "1">>>>
  /\ \E i \in 1..Len(constructInfo.integrationsByTarget) :
       Len(constructInfo.integrationsByTarget[i].value) = 1

(***************************************************************************)
(* extract-distribution.ts: DistributionExtractor, run without a biaser.   *)
(* A type of the registry is a record: its fqn, its kind, for a class      *)
(* abstract, initializer, ancestors (getAncestors) and interfaces          *)
(* (getInterfaces(true)), ownMethods and ownProperties, for an interface   *)
(* datatype, interfaces and allProperties, for an enum its members.  A     *)
(* type reference holds fqn, primitive, arrayOfType, mapOfType or          *)
(* unionOfTypes.                                                           *)
(***************************************************************************)
FqnRef(fqn) == [fqn |-> fqn]
PrimitiveRef(p) == [primitive |-> p]
ArrayRef(t) == [arrayOfType |-> t]

\* ts.tryFindFqn: the type a reference to fqn resolves to, or undefined
FindType(ts, fqn) ==
  IF \E i \in 1..Len(ts) : ts[i].fqn = fqn
  THEN ts[CHOOSE i \in 1..Len(ts) : ts[i].fqn = fqn]
  ELSE Undefined
\* reference.type: the type of a reference that names an FQN
RefType(ts, ref) == IF Has(ref, "fqn") THEN FindType(ts, ref.fqn) ELSE Undefined

\* deriveDistribution(type, optional) and deriveDistRef(type, optional):
\* the distribution or reference, the error thrown if any, and
\* model.distributions afterwards
RECURSIVE deriveDistribution(_, _, _)
RECURSIVE deriveDistRef(_, _, _)
RECURSIVE deriveUnion(_, _)
\* acc is the distribution built so far: dist.push of a source holding the
\* reference r, unless deriving r has thrown
PushElements(acc, type, r) ==
  IF IsThrown(r.outcome)
  THEN [dist |-> acc.dist, threw |-> r.outcome, distributions |-> r.distributions]
  ELSE [dist |-> Append(acc.dist, [type |-> type, elements |-> r.outcome]),
        threw |-> None, distributions |-> r.distributions]
PushArray(acc, type) ==
  IF acc.threw # None \/ ~Has(type, "arrayOfType") THEN acc
  ELSE PushElements(acc, "array", deriveDistRef(acc.distributions, type.arrayOfType, FALSE))
PushMap(acc, type) ==
  IF acc.threw # None \/ ~Has(type, "mapOfType") THEN acc
  ELSE PushElements(acc, "map", deriveDistRef(acc.distributions, type.mapOfType, FALSE))
PushAll(acc, d) ==
  [dist |-> acc.dist \o d.dist, threw |-> d.threw, distributions |-> d.distributions]
\* types.flatMap(t => deriveDistribution(t, false)), pushed on acc
deriveUnion(acc, types) ==
  IF acc.threw # None \/ Len(types) = 0 THEN acc
  ELSE deriveUnion(PushAll(acc, deriveDistribution(acc.distributions, types[1], FALSE)),
                   Tail(types))
PushUnion(acc, type) ==
  IF acc.threw # None \/ ~Has(type, "unionOfTypes") THEN acc
  ELSE deriveUnion(acc, type.unionOfTypes)
PushFqn(acc, type) ==
  IF acc.threw # None \/ ~Has(type, "fqn") THEN acc
  ELSE [acc EXCEPT !.dist = Append(@, IncludeFqnSources(type.fqn))]
PushPrimitive(acc, type) ==
  IF acc.threw # None \/ ~Has(type, "primitive") THEN acc
  ELSE [acc EXCEPT !.dist = Append(@, PrimitiveValueSource(type.primitive))]
deriveDistribution(dists, type, optional) ==
  PushPrimitive(
    PushFqn(
      PushUnion(
        PushMap(
          PushArray([dist |-> IF optional THEN <<NoValueSource>> ELSE <<>>,
                     threw |-> None, distributions |-> dists],
                    type),
          type),
        type),
      type),
    type)
RecordDerived(d) ==
  IF d.threw # None THEN [outcome |-> d.threw, distributions |-> d.distributions]
  ELSE recordDistribution(d.distributions, d.dist)
deriveDistRef(dists, type, optional) == RecordDerived(deriveDistribution(dists, type, optional))

\* parameters.map(p => ({ name: p.name, dist: deriveDistRef(p.type, p.optional) }))
RECURSIVE deriveParameters(_, _)
deriveParameters(dists, parameters) ==
  IF Len(parameters) = 0 THEN [parameters |-> <<>>, threw |-> None, distributions |-> dists]
  ELSE LET r == deriveDistRef(dists, parameters[1].type, parameters[1].optional)
       IN IF IsThrown(r.outcome)
          THEN [parameters |-> <<>>, threw |-> r.outcome, distributions |-> r.distributions]
          ELSE LET rest == deriveParameters(r.distributions, Tail(parameters))
               IN [rest EXCEPT !.parameters =
                     <<[name |-> parameters[1].name, dist |-> r.outcome]>> \o @]

\* the FQNs addFqnSource files a source of the type under
SourceFqns(type) ==
  <<type.fqn>> \o (IF type.kind = "class" THEN type.ancestors \o type.interfaces
                   ELSE IF type.kind = "interface" THEN type.interfaces
                   ELSE <<>>)

RECURSIVE PushSource(_, _, _)
PushSource(fqnSources, fqns, source) ==
  IF Len(fqns) = 0 THEN fqnSources
  ELSE PushSource([f \in DOMAIN fqnSources \cup {fqns[1]} |->
                     IF f = fqns[1]
                     THEN Append(IF f \in DOMAIN fqnSources THEN fqnSources[f] ELSE <<>>, source)
                     ELSE fqnSources[f]],
                  Tail(fqns), source)

\* model.fqnSources after addFqnSource(type, source)
addFqnSource(fqnSources, type, source) == PushSource(fqnSources, SourceFqns(type), source)

\* the extractor state st is [model, threw]: the model and the error that
\* has ended parse, if any
Extracted(fqnSources, dists) ==
  [model |-> [fqnSources |-> fqnSources, distributions |-> dists], threw |-> None]
Aborted(st, dists, threw) ==
  [model |-> [st.model EXCEPT !.distributions = dists], threw |-> threw]

\* the constructor source of visitClass
VisitInitializer(st, klass) ==
  IF ~klass.abstract /\ Has(klass, "initializer") /\ ~klass.initializer.protected
  THEN LET p == deriveParameters(st.model.distributions, klass.initializer.parameters)
       IN IF p.threw # None THEN Aborted(st, p.distributions, p.threw)
          ELSE Extracted(addFqnSource(st.model.fqnSources, klass,
                                      ClassInstantiationSource(klass.fqn, p.parameters)),
                         p.distributions)
  ELSE st

\* the loop of visitClass over klass.ownMethods.filter(m => m.static)
RECURSIVE VisitStaticMethods(_, _, _, _)
VisitStaticMethods(st, ts, klass, methods) ==
  IF Len(methods) = 0 \/ st.threw # None THEN st
  ELSE LET staticMethod == methods[1]
           type == RefType(ts, staticMethod.returns)
       IN IF type = Undefined THEN VisitStaticMethods(st, ts, klass, Tail(methods))
          ELSE LET p == deriveParameters(st.model.distributions, staticMethod.parameters)
               IN VisitStaticMethods(
                    IF p.threw # None THEN Aborted(st, p.distributions, p.threw)
                    ELSE Extracted(addFqnSource(st.model.fqnSources, type,
                                     StaticMethodCallSource(klass.fqn, staticMethod.name,
                                                            p.parameters, staticMethod.returns.fqn)),
                                   p.distributions),
                    ts, klass, Tail(methods))

\* the loop of visitClass over klass.ownProperties.filter(m => m.static)
RECURSIVE VisitStaticProperties(_, _, _, _)
VisitStaticProperties(st, ts, klass, props) ==
  IF Len(props) = 0 \/ st.threw # None THEN st
  ELSE LET type == RefType(ts, props[1].type)
       IN VisitStaticProperties(
            IF type = Undefined THEN st
            ELSE [st EXCEPT !.model.fqnSources =
                    addFqnSource(@, type, StaticPropertyAccessSource(klass.fqn, props[1].name,
                                                                     props[1].type.fqn))],
            ts, klass, Tail(props))

IsStatic(m) == m.static

visitClass(st, ts, klass) ==
  VisitStaticProperties(
    VisitStaticMethods(VisitInitializer(st, klass), ts, klass,
                       SelectSeq(klass.ownMethods, IsStatic)),
    ts, klass, SelectSeq(klass.ownProperties, IsStatic))

RECURSIVE visitEnumMembers(_, _, _)
visitEnumMembers(fqnSources, enm, members) ==
  IF Len(members) = 0 THEN fqnSources
  ELSE visitEnumMembers(addFqnSource(fqnSources, enm,
                                     StaticPropertyAccessSource(enm.fqn, members[1], enm.fqn)),
                        enm, Tail(members))
visitEnum(st, enm) ==
  [st EXCEPT !.model.fqnSources = visitEnumMembers(@, enm, enm.members)]

\* Object.fromEntries(struct.allProperties.map(p => [p.name, deriveDistRef(p.type, p.optional)]));
\* the properties of a struct have distinct names
RECURSIVE deriveFields(_, _)
deriveFields(dists, props) ==
  IF Len(props) = 0 THEN [fields |-> <<>>, threw |-> None, distributions |-> dists]
  ELSE LET r == deriveDistRef(dists, props[1].type, props[1].optional)
       IN IF IsThrown(r.outcome)
          THEN [fields |-> <<>>, threw |-> r.outcome, distributions |-> r.distributions]
          ELSE LET rest == deriveFields(r.distributions, Tail(props))
               IN [rest EXCEPT !.fields = <<[key |-> props[1].name, value |-> r.outcome]>> \o @]
visitStruct(st, struct) ==
  LET f == deriveFields(st.model.distributions, struct.allProperties)
  IN IF f.threw # None THEN Aborted(st, f.distributions, f.threw)
     ELSE Extracted(addFqnSource(st.model.fqnSources, struct,
                                 ValueObjectSource(struct.fqn, f.fields)),
                    f.distributions)

\* the registries: classes A (extends B, implements m.S), B (implements
\* m.E) and the abstract K, whose static method of returns T; interface
\* m.S extends m.E; enum A2; struct m.St
StringParam(name, optional) == [name |-> name, type |-> PrimitiveRef("string"), optional |-> optional]
TypeA ==
  [fqn |-> FqnA, kind |-> "class", abstract |-> FALSE,
   initializer |-> [parameters |-> <<StringParam("name", FALSE)>>, protected |-> FALSE],
   ancestors |-> <<FqnB>>, interfaces |-> <<FqnS, FqnE>>,
   ownMethods |-> <<[name |-> "X", static |-> FALSE, parameters |-> <<>>,
                     returns |-> FqnRef(FqnB)]>>,
   ownProperties |-> <<>>]
TypeB ==
  [fqn |-> FqnB, kind |-> "class", abstract |-> FALSE,
   initializer |-> [parameters |-> <<>>, protected |-> TRUE],
   ancestors |-> <<>>, interfaces |-> <<FqnE>>, ownMethods |-> <<>>, ownProperties |-> <<>>]
TypeK(returns) ==
  [fqn |-> FqnK, kind |-> "class", abstract |-> TRUE,
   ancestors |-> <<>>, interfaces |-> <<>>,
   ownMethods |-> <<[name |-> "of", static |-> TRUE,
                     parameters |-> <<StringParam("name", TRUE)>>, returns |-> returns],
                    [name |-> "Y", static |-> FALSE, parameters |-> <<>>,
                     returns |-> FqnRef(FqnA)]>>,
   ownProperties |-> <<[name |-> "INSTANCE", static |-> TRUE, type |-> FqnRef(FqnK)],
                       [name |-> "X", static |-> TRUE, type |-> PrimitiveRef("number")]>>]
TypeS == [fqn |-> FqnS, kind |-> "interface", datatype |-> FALSE, interfaces |-> <<FqnE>>,
          allProperties |-> <<>>]
TypeE == [fqn |-> FqnE, kind |-> "interface", datatype |-> FALSE, interfaces |-> <<>>,
          allProperties |-> <<>>]
TypeA2 == [fqn |-> FqnA2, kind |-> "enum", members |-> <<"X", "Y">>]
TypeStack ==
  [fqn |-> FqnStack, kind |-> "interface", datatype |-> TRUE, interfaces |-> <<>>,
   allProperties |-> <<StringParam("name", FALSE),
                       [name |-> "list", type |-> ArrayRef(PrimitiveRef("number")),
                        optional |-> TRUE]>>]
ReturnTypes ==
  {FqnRef(FqnA), FqnRef(FqnB), FqnRef(FqnS), FqnRef(FqnE), FqnRef(FqnA2), FqnRef(FqnStack),
   PrimitiveRef("string")}
SampleTypeSystems ==
  {<<TypeA2>> \o classes \o <<TypeS, TypeE, TypeStack>> :
     classes \in UNION {{<<TypeA, TypeB, TypeK(returns)>>, <<TypeK(returns), TypeB, TypeA>>,
                          <<TypeB, TypeK(returns), TypeA>>, <<TypeB, TypeA, TypeK(returns)>>}
                        : returns \in ReturnTypes}}

\* the order in which parse visits the types: enums, classes, structs
OfKind(ts, kind) == SelectSeq(ts, LAMBDA t : t.kind = kind)
isStruct(type) == type.kind = "interface" /\ type.datatype
ParseOrder(ts) == OfKind(ts, "enum") \o OfKind(ts, "class") \o SelectSeq(ts, isStruct)

InitExtract ==
  /\ xmodel \in {[ts |-> ts, model |-> [fqnSources |-> <<>>, distributions |-> <<>>],
                  threw |-> None] : ts \in SampleTypeSystems}
  /\ visited = <<>>
  /\ constructInfo = None /\ integrationCtr = 0
  /\ idCounter = <<>> /\ ids = <<>>
  /\ EngineUnused /\ ZipperUnused /\ DistUnused /\ PlanUnused /\ ExploreUnused

\* the type parse visits next
NextType == ParseOrder(xmodel.ts)[Len(visited) + 1]
Visiting(kind) ==
  /\ xmodel.threw = None
  /\ Len(visited) < Len(ParseOrder(xmodel.ts))
  /\ NextType.kind = kind
Visit(st) ==
  /\ xmodel' = [xmodel EXCEPT !.model = st.model, !.threw = st.threw]
  /\ visited' = Append(visited, NextType.fqn)
  /\ UNCHANGED <<engineVars, zipperVars, distVars, planVars, exploreVars, integVars, customVars>>

VisitEnum == Visiting("enum") /\ Visit(visitEnum([model |-> xmodel.model, threw |-> None], NextType))
VisitClass ==
  /\ Visiting("class")
  /\ Visit(visitClass([model |-> xmodel.model, threw |-> None], xmodel.ts, NextType))
VisitStruct ==
  /\ Visiting("interface")
  /\ Visit(visitStruct([model |-> xmodel.model, threw |-> None], NextType))

NextExtract == VisitEnum \/ VisitClass \/ VisitStruct

SpecExtract == InitExtract /\ [][NextExtract]_vars

\* C27: a StaticMethodCall source is filed under the FQN of the method's
\* return type T and, when T is a class, under the FQNs of T's ancestor
\* classes, and under no other FQN.
FiledStaticMethodCalls ==
  {[fqn |-> f, source |-> xmodel.model.fqnSources[f][i]] :
     <<f, i>> \in {<<g, j>> \in (DOMAIN xmodel.model.fqnSources) \X (1..8) :
                     /\ j <= Len(xmodel.model.fqnSources[g])
                     /\ xmodel.model.fqnSources[g][j].type = "static-method-call"}}
C27_StaticMethodOnlyUnderReturnTypeChain ==
  xmodel # None =>
    \A filed \in FiledStaticMethodCalls :
      LET T == FindType(xmodel.ts, filed.source.targetFqn)
      IN \/ filed.fqn = T.fqn
         \/ T.kind = "class" /\ filed.fqn \in Range(T.ancestors)

(***************************************************************************)
(* part_009: the constructId plug-in on its own.  One plug-in instance     *)
(* (idCounter is its constructCounter) is asked for minimal values below   *)
(* parents of several classes; ids lists what each call was given and      *)
(* what it returned.                                                       *)
(***************************************************************************)
MaxIds == 3

\* the zippers of the calls: below the first argument of a class
\* instantiation or static method call, below an array, and at the root
ParentZippers ==
  {<<[type |-> "class-instantiation", argumentIndex |-> 0,
      ptr |-> ClassInstantiation(fqn, DistPtr(1, 0), <<"id">>, <<>>)]>>
     : fqn \in {FqnA, FqnA2, FqnS, FqnStack}}
  \cup {<<[type |-> "static-method-call", argumentIndex |-> 0,
           ptr |-> StaticMethodCall(FqnA, DistPtr(1, 1), "of", <<"id">>, <<>>, FqnA)]>>,
        <<[type |-> "array-element", index |-> 0, ptr |-> ArrayValue(DistPtr(1, 2), <<>>)]>>,
        <<>>}

InitCustom ==
  /\ idCounter = <<>> /\ ids = <<>>
  /\ constructInfo = None /\ integrationCtr = 0
  /\ xmodel = None /\ visited = <<>>
  /\ EngineUnused /\ ZipperUnused /\ DistUnused /\ PlanUnused /\ ExploreUnused

\* AWS_CUSTOM_DISTRIBUTIONS.constructId.minimalValue(distPtr, zipper)
ConstructIdMinimalValue(zipper) ==
  /\ Len(ids) < MaxIds
  /\ LET o == customMinimalValue("constructId", DistPtr(2, 0), zipper, idCounter)
     IN /\ idCounter' = o.cc
        /\ ids' = Append(ids, [zipper |-> zipper, returned |-> o.value])
  /\ UNCHANGED <<engineVars, zipperVars, distVars, planVars, exploreVars, integVars, extractVars>>

NextCustom == \E zipper \in ParentZippers : ConstructIdMinimalValue(zipper)

SpecCustom == InitCustom /\ [][NextCustom]_vars

\* C28: no two minimalValue calls of the constructId plug-in return the
\* same identifier string, whatever the classes of their parents.
C28_IdentifiersAreFresh ==
  \A i, j \in 1..Len(ids) :
    (i < j /\ ~IsThrown(ids[i].returned) /\ ~IsThrown(ids[j].returned))
      => ids[i].returned.value.string # ids[j].returned.value.string

(***************************************************************************)
(* Properties of the recursion breaker (SpecMinimal).                      *)
(***************************************************************************)
\* the positions of the stack that hold a minimalValueFromSource attempt
ActiveAttempts == {j \in 1..Len(stack) : stack[j].fn = "minimalValueFromSource"}

\* C25: at every point of minimal the recursion-breaker set is the set of
\* the DistPtrs whose minimalValueFromSource attempt is active, no DistPtr
\* is active twice, and the set is empty when minimal has returned or
\* thrown.
C25_BreakerIsActiveAttempts ==
  /\ recursionBreaker = {stack[j].key : j \in ActiveAttempts}
  /\ \A i, j \in ActiveAttempts : stack[i].key = stack[j].key => i = j
  /\ phase = "idle" => recursionBreaker = {}
\* an attempt has just failed with 'Breaking recursion' while the attempt
\* on the same DistPtr is still active, two attempts deep
C25_Witness ==
  /\ phase = "minimal"
  /\ isFailure(ret) /\ ret.reason = "Breaking recursion"
  /\ Cardinality(recursionBreaker) >= 2
  /\ Cardinality(ActiveAttempts) = Cardinality(recursionBreaker)
\* minimal has thrown and the set is empty
C25_WitnessThrown ==
  /\ phase = "idle" /\ Len(returned) > 0 /\ IsThrown(returned[Len(returned)])
  /\ recursionBreaker = {}

(***************************************************************************)
(* Properties of the walk of mutateValue (Spec).                           *)
(***************************************************************************)
\* C30: a proposal made for a primitive node replaces its payload by a
\* different one: in the step of mutateValue that handles a primitive
\* source, every slot of the reservoir the proposal is put in holds a
\* payload other than the node's.
PrimitiveStep ==
  /\ AtSource /\ ~IsNone(TheSource)
  /\ TheSource.type = "primitive" /\ Top.value.type = "primitive"
  /\ n' = n + 1
C30_PrimitiveProposalChangesPayload ==
  [][PrimitiveStep =>
       \A j \in 1..k :
         proposedMutations'[j] # proposedMutations[j]
           => proposedMutations'[j].value.value # Top.value.value]_vars

(***************************************************************************)
(* Properties of the names discretize makes (SpecPlan).                    *)
(***************************************************************************)
\* the statements of the program that bind a name
Assignments == {j \in 1..Len(program) : program[j].type = "assignment"}

\* C29: the names bound in the output of one discretize call are pairwise
\* distinct, whatever the classes are called, so that its execution never
\* fails with 'Variable name already used'.
C29_BindingNamesDistinct ==
  /\ Discretized =>
       \A i, j \in Assignments :
         program[i].variableName = program[j].variableName => i = j
  /\ pout # Threw("Variable name already used")

\* a process that makes one mutate call, on the value minimal has returned
NextWalk ==
  \/ NextMinimal
  \/ \E variantCount \in 1..MaxK : rounds = 0 /\ CallMutate(variantCount)
  \/ MutateSteps
SpecWalk == Init /\ [][NextWalk]_vars

\* the step of the loop over the arguments of a callable
ArgumentStep == Running /\ Top.fn = "mutateValue" /\ IsNone(ret) /\ Top.pc = "args"
\* the last argument visited has proposed something
ArgumentProposed == Top.i > 0 /\ n > Top.start
\* the step visits one more argument
VisitsArgument ==
  /\ Len(stack') >= Len(stack)
  /\ stack'[Len(stack)] = [Top EXCEPT !.i = @ + 1, !.start = n]

\* the callable a zipper frame stands in has an argument for every parameter
FullCallable(frame) ==
  /\ frame.type \in {"class-instantiation", "static-method-call"}
  /\ Has(frame.ptr, "parameterNames")
  /\ Len(frame.ptr.arguments) = Len(frame.ptr.parameterNames)
\* two proposals lie below different arguments of one callable that has all
\* its arguments
BelowTwoArguments(za, zb) ==
  \E i \in 1..Len(za) : \E j \in 1..Len(zb) :
    /\ FullCallable(za[i]) /\ za[i].ptr = zb[j].ptr /\ za[i].type = zb[j].type
    /\ SubSeq(za, i + 1, Len(za)) = SubSeq(zb, j + 1, Len(zb))
    /\ za[i].argumentIndex # zb[j].argumentIndex

\* C26: the arguments of a callable that has all its arguments are visited
\* in a permutation of their positions; the loop ends after the first
\* argument whose subtree has proposed something and goes on to the next
\* argument as long as none has, so that the proposals kept come from below
\* at most one argument of the node.
C26_FirstProposingArgument ==
  /\ [][ArgumentStep =>
          /\ Len(Top.order) = Len(Top.value.arguments)
          /\ Range(Top.order) = 0..(Len(Top.value.arguments) - 1)
          /\ ArgumentProposed => stack' = Below
          /\ (~ArgumentProposed /\ Top.i < Len(Top.order))
               => (VisitsArgument \/ stack' = <<>>)
          /\ VisitsArgument => ~ArgumentProposed]_vars
  /\ [](\A a, b \in 1..Len(proposedMutations) :
          (proposedMutations[a] # Hole /\ proposedMutations[b] # Hole)
            => ~BelowTwoArguments(proposedMutations[a].zipper, proposedMutations[b].zipper))
\* the first of two arguments visited has proposed something and the other
\* is left unvisited
C26_Witness ==
  /\ ArgumentStep /\ ArgumentProposed
  /\ Top.i = 1 /\ Len(Top.order) = 2
  /\ FullCallable([type |-> Top.value.type, ptr |-> Top.value])
\* an argument that proposes nothing was visited first, and the second one
\* has proposed
C26_WitnessSecond ==
  /\ ArgumentStep /\ ArgumentProposed
  /\ Top.i = 3 /\ Len(Top.order) = 3

====
